---- MODULE Spec2Model ----
(***************************************************************************)
(* A model of micro's web resource analyzer and file storage              *)
(* (src/micro/resource.py): Analyzer.analyze / fetch / thumbnail with its *)
(* cache, the handler chain, and Files.read / write / garbage_collect.    *)
(*                                                                         *)
(* Strings are sequences of tokens (each token a TLA+ string), so that     *)
(* urlsplit, lstrip('/'), split(';') and the mimetypes lookups are         *)
(* computed on the text and not assumed.  An optional value is <<>> (None) *)
(* or <<x>>.                                                               *)
(***************************************************************************)
EXTENDS Integers, Sequences, FiniteSets, TLC

\* ------------------------------------------------------------------ bounds

\* Analyzer._CACHE_SIZE is 128 in the source; the model scales it down so that
\* a full cache is reached with a handful of URLs.
CACHE_SIZE == 2
\* Resolution of the model's clock: ticks per hour.
TicksPerHour == 2

\* Analyzer._CACHE_TTL = timedelta(hours=1), in clock ticks
CACHE_TTL == 1 * TicksPerHour

\* The clock stops advancing one tick after an entry inserted at tick 1 expires.
MaxTime == 3

\* ------------------------------------------------------------------ values

None == <<>>
Some(x) == <<x>>

Range(s) == {s[i] : i \in 1..Len(s)}

\* ------------------------------------------------------------------ URLs

\* A URL is a token sequence: a scheme token ("http:", "file:", "ftp:"), for
\* web URLs a network location token ("//h"), then path tokens, "/" among them.
SchemeTokens == {"http:", "https:", "file:", "ftp:"}

IsNetloc(tok) == tok \in {"//h", "//[::]", "//www.youtube.com"}

\* urllib.parse.urlsplit(url).scheme, with the trailing colon kept
UrlScheme(url) == IF Len(url) > 0 /\ url[1] \in SchemeTokens THEN url[1] ELSE ""

\* urllib.parse.urlsplit(url).path
UrlPath(url) ==
    LET rest == IF UrlScheme(url) = "" THEN url ELSE Tail(url)
    IN IF Len(rest) > 0 /\ IsNetloc(rest[1]) THEN Tail(rest) ELSE rest

\* str.lstrip('/')
RECURSIVE LStripSlash(_)
LStripSlash(s) == IF Len(s) > 0 /\ s[1] = "/" THEN LStripSlash(Tail(s)) ELSE s

\* urllib.parse.urljoin(base, ref) for an absolute ref or a ref relative to the
\* directory of base
UrlJoin(base, ref) ==
    IF UrlScheme(ref) # "" THEN ref
    ELSE SubSeq(base, 1, Len(base) - 1) \o ref

\* ------------------------------------------------------------------ mimetypes

\* mimetypes.types_map after mimetypes.init(files=()): extension -> media type
TypesMap(ext) ==
    CASE ext = ".bin" -> "application/octet-stream"
      [] ext = ".txt" -> "text/plain"
      [] ext = ".html" -> "text/html"
      [] ext = ".htm" -> "text/html"
      [] ext = ".png" -> "image/png"
      [] ext = ".gif" -> "image/gif"
      [] ext = ".jpg" -> "image/jpeg"
      [] ext = ".jpeg" -> "image/jpeg"
      [] ext = ".bmp" -> "image/bmp"
      [] ext = ".svg" -> "image/svg+xml"
      [] OTHER -> ""

\* str.lower() of a media type: the model writes one media type in upper case
Lower(content_type) == IF content_type = "IMAGE/PNG" THEN "image/png" ELSE content_type

\* The first extension that mimetypes.types_map has for a media type, "" for None
FirstExtension(content_type) ==
    CASE content_type = "application/octet-stream" -> ".bin"
      [] content_type = "text/plain" -> ".txt"
      [] content_type = "text/html" -> ".html"
      [] content_type = "image/png" -> ".png"
      [] content_type = "image/gif" -> ".gif"
      [] content_type = "image/jpeg" -> ".jpg"
      [] content_type = "image/bmp" -> ".bmp"
      [] content_type = "image/svg+xml" -> ".svg"
      [] OTHER -> ""

\* mimetypes.guess_extension(content_type), which looks the type up in lower case
guess_extension(content_type) == FirstExtension(Lower(content_type))

\* A guess that takes every file for a binary
guess_type_Binary(name) == IF Len(name) = 0 THEN "" ELSE "application/octet-stream"

\* mimetypes.guess_type(name)[0]: by the last token of the name, "" for None
guess_type(name) == IF Len(name) = 0 THEN "" ELSE TypesMap(name[Len(name)])

\* ------------------------------------------------------------------ data

\* Byte strings that responses and files carry, named by what they hold.
Data == {"blob", "png", "png_t", "jpg", "jpg_t", "badpng", "bomb", "svg", "page", "page2",
         "badutf", "page3", "page4"}

\* hashlib.sha256(data).hexdigest(): one token per byte string, no collisions
sha256(data) ==
    CASE data = "blob" -> "#b1"
      [] data = "png" -> "#p1"
      [] data = "png_t" -> "#p2"
      [] data = "jpg" -> "#j1"
      [] data = "jpg_t" -> "#j2"
      [] data = "badpng" -> "#p3"
      [] data = "bomb" -> "#g1"
      [] data = "svg" -> "#s1"
      [] data = "page" -> "#h1"
      [] data = "page2" -> "#h2"
      [] data = "badutf" -> "#h3"
      [] data = "page3" -> "#h4"
      [] data = "page4" -> "#h5"

\* PIL.Image.open(BytesIO(data), formats=[fmt]) ... image.save(stream): the
\* re-encoded thumbnail bytes, or the error PIL raises
PilThumbnail(data, fmt) ==
    CASE data \in {"png", "png_t"} /\ fmt = "png" -> [err |-> "", data |-> "png_t"]
      [] data \in {"jpg", "jpg_t"} /\ fmt = "jpeg" -> [err |-> "", data |-> "jpg_t"]
      [] data = "bomb" /\ fmt = "gif" -> [err |-> "DecompressionBombError", data |-> ""]
      [] OTHER -> [err |-> "OSError", data |-> ""]

\* content_type[6:]
ImageFormat(content_type) ==
    CASE content_type = "image/bmp" -> "bmp"
      [] content_type = "image/gif" -> "gif"
      [] content_type = "image/jpeg" -> "jpeg"
      [] content_type = "image/png" -> "png"
      [] OTHER -> ""

\* ------------------------------------------------------------------ Files

\* The store directory: a function from file name (token sequence) to data.
EmptyStore == [n \in {} |-> "blob"]

FileResult(err, data, content_type) ==
    [err |-> err, data |-> data, content_type |-> content_type]

\* A file next to the store directory, by its path relative to the directory
Outside == [n \in {<<"..", "/", "secret", ".txt">>} |-> "secret"]

\* What Path(self.path, name) names on the disk: the files of the store
\* directory and the files around it
Disk(st) ==
    [n \in DOMAIN st \cup DOMAIN Outside |-> IF n \in DOMAIN st THEN st[n] ELSE Outside[n]]

\* A read that takes any path
FilesReadName_AnyPath(st, scheme, name, content_type) ==
    IF scheme # "" /\ scheme # "file:" THEN FileResult("builtins.ValueError", "", "")
    ELSE IF content_type = "" THEN FileResult("LookupError", "", "")
    ELSE IF name \notin DOMAIN Disk(st) THEN FileResult("LookupError", "", "")
    ELSE FileResult("", Disk(st)[name], content_type)

\* Files.read, from the name and the media type guessed for it
FilesReadName(st, scheme, name, content_type) ==
    IF scheme # "" /\ scheme # "file:" THEN FileResult("builtins.ValueError", "", "")
    ELSE IF "/" \in Range(name) \/ content_type = "" THEN FileResult("LookupError", "", "")
    ELSE IF name \notin DOMAIN Disk(st) THEN FileResult("LookupError", "", "")
    ELSE FileResult("", Disk(st)[name], content_type)

\* Files.read
FilesRead(st, url) ==
    FilesReadName(st, UrlScheme(url), LStripSlash(UrlPath(url)),
                  guess_type(LStripSlash(UrlPath(url))))

\* A write that numbers the files it stores
FilesWriteName_Numbered(st, data, ext, name) ==
    IF ext = "" THEN [err |-> "builtins.ValueError", url |-> <<>>, store |-> st]
    ELSE [err |-> "", url |-> <<"file:", "/", ToString(Cardinality(DOMAIN st))>> \o name,
          store |-> [n \in DOMAIN st \cup {<<ToString(Cardinality(DOMAIN st))>> \o name} |->
                        IF n \in DOMAIN st THEN st[n] ELSE data]]

\* A write that stores data of an unknown media type without an extension
FilesWriteName_NoCheck(st, data, ext, name) ==
    [err |-> "", url |-> <<"file:", "/">> \o name,
     store |-> [n \in DOMAIN st \cup {name} |-> IF n = name THEN data ELSE st[n]]]

\* Files.write, from the file name: the error, the file URL and the store afterwards
FilesWriteName(st, data, ext, name) ==
    IF ext = "" THEN [err |-> "builtins.ValueError", url |-> <<>>, store |-> st]
    ELSE [err |-> "", url |-> <<"file:", "/">> \o name,
          store |-> [n \in DOMAIN st \cup {name} |-> IF n = name THEN data ELSE st[n]]]

\* Files.write
FilesWrite(st, data, content_type) ==
    FilesWriteName(st, data, guess_extension(content_type),
                   <<sha256(data), guess_extension(content_type)>>)

\* The file names that the URLs of references name
\* The file names taken without stripping the leading slash of the path
ReferencedNames_NoStrip(references) == {UrlPath(url) : url \in references}

ReferencedNames(references) == {LStripSlash(UrlPath(url)) : url \in references}

\* A collection that takes every file that listdir gave as garbage
Garbage_Listed(names, references) == names

\* Files.garbage_collect up to the await of _unlink: the garbage among the
\* names that listdir gave
Garbage(names, references) == names \ ReferencedNames(references)

\* Files._unlink when every path exists
Unlink(st, paths) == [f \in DOMAIN st \ paths |-> st[f]]

\* ------------------------------------------------------------------ cache

\* Analyzer._cache: an OrderedDict, oldest first, of [key, resource, expires]
\* entries; at is history, the time the entry was inserted.
CacheKeys(c) == {c[i].key : i \in 1..Len(c)}

CacheEntry(c, url) == c[CHOOSE i \in 1..Len(c) : c[i].key = url]

\* del self._cache[url]
CacheDel(c, url) == SelectSeq(c, LAMBDA e : e.key # url)

\* _get_cache that keeps an entry for one tick too long (> for >=)
_get_cache_Late(c, url, t) ==
    IF url \notin CacheKeys(c) THEN [hit |-> FALSE, resource |-> None, cache |-> c]
    ELSE IF t > CacheEntry(c, url).expires
         THEN [hit |-> FALSE, resource |-> None, cache |-> CacheDel(c, url)]
         ELSE [hit |-> TRUE, resource |-> Some(CacheEntry(c, url).resource), cache |-> c]

\* _get_cache that moves the entry it hits to the end (least recently used order)
_get_cache_Lru(c, url, t) ==
    IF url \notin CacheKeys(c) THEN [hit |-> FALSE, resource |-> None, cache |-> c]
    ELSE IF t >= CacheEntry(c, url).expires
         THEN [hit |-> FALSE, resource |-> None, cache |-> CacheDel(c, url)]
         ELSE [hit |-> TRUE, resource |-> Some(CacheEntry(c, url).resource),
               cache |-> Append(CacheDel(c, url), CacheEntry(c, url))]

\* _get_cache that gives the entry it hits another CACHE_TTL to live
_get_cache_Touch(c, url, t) ==
    IF url \notin CacheKeys(c) THEN [hit |-> FALSE, resource |-> None, cache |-> c]
    ELSE IF t >= CacheEntry(c, url).expires
         THEN [hit |-> FALSE, resource |-> None, cache |-> CacheDel(c, url)]
         ELSE [hit |-> TRUE, resource |-> Some(CacheEntry(c, url).resource),
               cache |-> [i \in 1..Len(c) |->
                            IF c[i].key = url THEN [c[i] EXCEPT !.expires = t + CACHE_TTL]
                            ELSE c[i]]]

\* Analyzer._get_cache: hit with the resource, or KeyError; the cache afterwards
_get_cache(c, url, t) ==
    IF url \notin CacheKeys(c) THEN [hit |-> FALSE, resource |-> None, cache |-> c]
    ELSE IF t >= CacheEntry(c, url).expires
         THEN [hit |-> FALSE, resource |-> None, cache |-> CacheDel(c, url)]
         ELSE [hit |-> TRUE, resource |-> Some(CacheEntry(c, url).resource), cache |-> c]

\* No eviction at all
CacheEvict_Never(c) == c

\* popitem(last=True): the newest entry goes
CacheEvict_Newest(c) == IF Len(c) = CACHE_SIZE THEN SubSeq(c, 1, Len(c) - 1) ELSE c

\* if len(self._cache) == self._CACHE_SIZE: self._cache.popitem(last=False)
CacheEvict(c) == IF Len(c) = CACHE_SIZE THEN Tail(c) ELSE c

\* _set_cache that first drops the entries that have expired
_set_cache_Purge(c, url, resource, t) ==
    Append(CacheEvict(CacheDel(SelectSeq(c, LAMBDA e : e.expires > t), url)),
           [key |-> url, resource |-> resource, expires |-> t + CACHE_TTL, at |-> t])

\* _set_cache that forgets the time to live
_set_cache_NoTtl(c, url, resource, t) ==
    Append(CacheEvict(CacheDel(c, url)),
           [key |-> url, resource |-> resource, expires |-> t, at |-> t])

\* _set_cache that makes room before it deletes the entry of the key
_set_cache_EvictFirst(c, url, resource, t) ==
    Append(CacheDel(CacheEvict(c), url),
           [key |-> url, resource |-> resource, expires |-> t + CACHE_TTL, at |-> t])

\* _set_cache that leaves the entry of a key that is cached as it is
_set_cache_IfAbsent(c, url, resource, t) ==
    IF url \in CacheKeys(c) THEN c
    ELSE Append(CacheEvict(c),
                [key |-> url, resource |-> resource, expires |-> t + CACHE_TTL, at |-> t])

\* _set_cache without the del: the entry of a key that is cached keeps its place
_set_cache_Keep(c, url, resource, t) ==
    IF url \in CacheKeys(c)
    THEN [i \in 1..Len(c) |->
            IF c[i].key = url
            THEN [key |-> url, resource |-> resource, expires |-> t + CACHE_TTL, at |-> t]
            ELSE c[i]]
    ELSE Append(CacheEvict(c),
                [key |-> url, resource |-> resource, expires |-> t + CACHE_TTL, at |-> t])

\* Analyzer._set_cache
_set_cache(c, url, resource, t) ==
    Append(CacheEvict(CacheDel(c, url)),
           [key |-> url, resource |-> resource, expires |-> t + CACHE_TTL, at |-> t])

\* ------------------------------------------------------------------ resources

\* Resource / Image / Video (dataclasses; __post__init__ is never called by
\* dataclass, whose hook is named __post_init__)
MkResource(cls, url, content_type, description, thumbnail) ==
    [cls |-> cls, url |-> url, content_type |-> content_type,
     description |-> description, thumbnail |-> thumbnail]

\* Resource.Thumbnail
Thumbnail(url) == [url |-> url]

\* util.str_or_none on a text (token sequence): None unless some token is not whitespace
str_or_none(text) ==
    IF \E i \in 1..Len(text) : text[i] \notin {" ", ""} THEN Some(text) ELSE None

\* ------------------------------------------------------------------ JSON

\* JSON values: null, a string (a text), an object (a function from keys)
JsonNull == [t |-> "null"]
JsonStr(text) == [t |-> "str", v |-> text]
JsonObject(d) == [t |-> "object", v |-> d]

\* Resource.Thumbnail.json()
ThumbnailJson(thumbnail) == JsonObject([url |-> JsonStr(thumbnail.url)])

\* Resource.json()
ResourceJson(r) ==
    JsonObject([type |-> JsonStr(<<r.cls>>),
                url |-> JsonStr(r.url),
                content_type |-> JsonStr(<<r.content_type>>),
                description |-> IF r.description = None THEN JsonNull
                                ELSE JsonStr(r.description[1]),
                thumbnail |-> IF r.thumbnail = None THEN JsonNull
                              ELSE ThumbnailJson(r.thumbnail[1]),
                image |-> JsonNull])

\* data.get(key): null for a key that the object does not have
JsonGet(obj, key) == IF key \in DOMAIN obj.v THEN obj.v[key] ELSE JsonNull

\* Expect.str and Expect.dict: whether the assertion holds
IsStr(j) == j.t = "str"
IsObject(j) == j.t = "object"

\* The truth value of a parsed JSON value: null and the empty object are false
JsonTruthy(j) == IF j.t = "object" THEN DOMAIN j.v # {} ELSE j.t # "null"

\* A thumbnail is taken to be there only if its URL is not empty
ThumbnailParse_UrlTruthy(j) ==
    IF ~JsonTruthy(j) \/ JsonGet(j, "url") = JsonStr(<<>>) THEN [err |-> "", thumbnail |-> None]
    ELSE IF ~IsStr(JsonGet(j, "url")) THEN [err |-> "TypeError", thumbnail |-> None]
    ELSE [err |-> "", thumbnail |-> Some(Thumbnail(JsonGet(j, "url").v))]

\* Resource.Thumbnail.parse(thumbnail) if thumbnail else None
ThumbnailParse(j) ==
    IF ~JsonTruthy(j) THEN [err |-> "", thumbnail |-> None]
    ELSE IF ~IsStr(JsonGet(j, "url")) THEN [err |-> "TypeError", thumbnail |-> None]
    ELSE [err |-> "", thumbnail |-> Some(Thumbnail(JsonGet(j, "url").v))]

\* Resource.parse, Image.parse and Video.parse from the fields of the object:
\* the resource of class cls, or the TypeError of a failed assertion
ParseFields(cls, url, content_type, description, thumbnail) ==
    IF \/ thumbnail.t \notin {"null", "object"}
       \/ ~IsStr(url)
       \/ ~IsStr(content_type)
       \/ Len(content_type.v) # 1
       \/ description.t \notin {"null", "str"}
       \/ ThumbnailParse(thumbnail).err # ""
    THEN [err |-> "TypeError", resource |-> None]
    ELSE [err |-> "",
          resource |-> Some(MkResource(cls, url.v, content_type.v[1],
                                       IF description.t = "null" THEN None
                                       ELSE Some(description.v),
                                       ThumbnailParse(thumbnail).thumbnail))]

ResourceParse(cls, data) ==
    ParseFields(cls, JsonGet(data, "url"), JsonGet(data, "content_type"),
                JsonGet(data, "description"), JsonGet(data, "thumbnail"))

\* ------------------------------------------------------------------ fetch

\* What a call of the YouTube API (WebAPI.call) comes to: the error it raises,
\* or the 'items' of the result: None if the key is missing, else whether the
\* value is a list and its elements; of an element, the snippet title and the
\* URL of the high thumbnail, None where the key is missing or the value no str.
ApiResult(raised, items) == [raised |-> raised, items |-> items]

ApiItems(list, elems) == [list |-> list, elems |-> elems]

ApiItem(title, image) == [title |-> title, image |-> image]

NoApi == ApiResult("", None)

\* What the fetch primitive (webapi.fetch) gives: a response, or what it raises;
\* api is what the API call of a handler that makes one comes to.
Outcome(k, code, body, header, eff) ==
    [k |-> k, code |-> code, body |-> body, header |-> header, eff |-> eff, api |-> NoApi]

WithApi(o, a) == [o EXCEPT !.api = a]

\* response.headers['Content-Type'].split(';', 1)[0] of a present header
MediaType(header) == IF Len(header) = 0 \/ header[1] = ";" THEN "" ELSE header[1]

FetchResult(err, data, content_type, eff, net) ==
    [err |-> err, data |-> data, content_type |-> content_type, eff |-> eff, net |-> net]

\* The HTTPClientError branch with 410 and 405 left out
StatusError_Short(code) ==
    IF code \in {404} THEN "NoResourceError"
    ELSE IF code \in {401, 402, 403, 451} THEN "ForbiddenResourceError"
    ELSE "CommunicationError"

\* The HTTPClientError branch of Analyzer.fetch
StatusError(code) ==
    IF code \in {404, 410} THEN "NoResourceError"
    ELSE IF code \in {401, 402, 403, 405, 451} THEN "ForbiddenResourceError"
    ELSE "CommunicationError"

\* A file branch that lets the error of Files.read through
FetchFile_Raw(r, url) ==
    IF r.err # "" THEN FetchResult(r.err, "", "", <<>>, 0)
    ELSE FetchResult("", r.data, r.content_type, url, 0)

\* The file branch of Analyzer.fetch, on what Files.read gave
FetchFile(r, url) ==
    IF r.err = "LookupError" THEN FetchResult("NoResourceError", "", "", <<>>, 0)
    ELSE IF r.err # "" THEN FetchResult(r.err, "", "", <<>>, 0)
    ELSE FetchResult("", r.data, r.content_type, url, 0)

\* A network branch that lets the ValueError of the fetch primitive through
FetchWeb_Unchecked(o) ==
    CASE o.k = "ok" ->
            IF o.header = None THEN FetchResult("KeyError", "", "", <<>>, 1)
            ELSE FetchResult("", o.body, MediaType(o.header[1]), o.eff, 1)
      [] o.k = "HTTPClientError" -> FetchResult(StatusError(o.code), "", "", <<>>, 1)
      [] OTHER -> FetchResult(o.k, "", "", <<>>, 1)

\* The network branch of Analyzer.fetch, on the outcome o of the fetch primitive
FetchWeb(o) ==
    CASE o.k = "ok" ->
            IF o.header = None THEN FetchResult("KeyError", "", "", <<>>, 1)
            ELSE FetchResult("", o.body, MediaType(o.header[1]), o.eff, 1)
      [] o.k = "builtins.ValueError" -> FetchResult("ValueError", "", "", <<>>, 1)
      [] o.k = "HTTPClientError" -> FetchResult(StatusError(o.code), "", "", <<>>, 1)
      [] OTHER -> FetchResult(o.k, "", "", <<>>, 1)

\* Analyzer.fetch, given the outcome o of the fetch primitive should it be called;
\* net counts the calls of the primitive
AnalyzerFetch(st, files, url, o) ==
    IF files /\ UrlScheme(url) = "file:" THEN FetchFile(FilesRead(st, url), url)
    ELSE FetchWeb(o)

\* ------------------------------------------------------------------ web pages

\* What html.parser.HTMLParser.feed reports for a document: start tags, end tags
\* and character data, in order.
StartTag(tag, attrs) == [ev |-> "start", tag |-> tag, attrs |-> attrs, text |-> <<>>]
EndTag(tag) == [ev |-> "end", tag |-> tag, attrs |-> <<>>, text |-> <<>>]
CharData(text) == [ev |-> "data", tag |-> "", attrs |-> <<>>, text |-> text]
Attr(k, v) == [k |-> k, v |-> v]

\* bytes.decode() and the tokenisation of the documents of Data
HtmlDoc(data) ==
    CASE data = "page" ->
            [utf8 |-> TRUE,
             events |-> << StartTag("title", <<>>), CharData(<<"Happy Blog">>), EndTag("title"),
                           StartTag("meta", <<Attr("property", Some(<<"og:image">>)),
                                              Attr("content", Some(<<"img">>))>>) >>]
      [] data = "page2" ->
            [utf8 |-> TRUE,
             events |-> << StartTag("title", <<>>), CharData(<<" ">>), EndTag("title") >>]
      [] data = "page3" ->
            [utf8 |-> TRUE,
             events |-> << StartTag("meta", <<Attr("property", Some(<<"og:image">>)),
                                              Attr("content", Some(<<"ftp:", "//h", "/", "x">>))>>) >>]
      [] data = "page4" ->
            [utf8 |-> TRUE,
             events |-> << StartTag("meta", <<Attr("content", Some(<<"b">>)),
                                              Attr("name", Some(<<"og:image:url">>))>>) >>]
      [] data = "badutf" -> [utf8 |-> FALSE, events |-> <<>>]
      [] OTHER -> [utf8 |-> TRUE, events |-> <<>>]

\* next((v for k, v in attrs if k in keys), None)
RECURSIVE FirstAttr(_, _)
FirstAttr(attrs, keys) ==
    IF Len(attrs) = 0 THEN None
    ELSE IF attrs[1].k \in keys THEN attrs[1].v
    ELSE FirstAttr(Tail(attrs), keys)

\* dict item assignment
DictSet(d, k, v) == [x \in DOMAIN d \cup {k} |-> IF x = k THEN v ELSE d[x]]

\* dict.get
DictGet(d, k) == IF k \in DOMAIN d THEN Some(d[k]) ELSE None

\* The meta branch of _MetaParser.handle_starttag
MetaTag(p, key, value) ==
    IF key # None /\ value # None THEN [p EXCEPT !.meta = DictSet(p.meta, key[1], value[1])]
    ELSE p

\* _MetaParser.handle_starttag / handle_endtag / handle_data on parser state
\* [meta, read]; read is "" for _read_tag_data = None
MetaStep(p, e) ==
    CASE e.ev = "start" ->
            IF p.read # "" THEN p
            ELSE IF e.tag = "title" THEN [meta |-> DictSet(p.meta, <<"title">>, <<>>), read |-> "title"]
            ELSE IF e.tag = "meta"
                 THEN MetaTag(p, FirstAttr(e.attrs, {"name", "property"}), FirstAttr(e.attrs, {"content"}))
            ELSE p
      [] e.ev = "end" -> IF p.read = e.tag THEN [p EXCEPT !.read = ""] ELSE p
      [] OTHER ->
            IF p.read # "" THEN [p EXCEPT !.meta = DictSet(p.meta, <<p.read>>, p.meta[<<p.read>>] \o e.text)]
            ELSE p

RECURSIVE MetaFeed(_, _)
MetaFeed(p, events) ==
    IF Len(events) = 0 THEN p ELSE MetaFeed(MetaStep(p, events[1]), Tail(events))

\* parser = _MetaParser(); parser.feed(html); parser.close(); parser.meta
MetaParse(events) ==
    MetaFeed([meta |-> [k \in {} |-> <<>>], read |-> ""], events).meta

\* a or b on optional texts: a if it is a non-empty text, else b
OrElse(a, b) == IF a # None /\ a # Some(<<>>) THEN a ELSE b

\* ------------------------------------------------------------------ thumbnails

RasterTypes == {"image/bmp", "image/gif", "image/jpeg", "image/png"}

ThumbResult(err, thumbnail, st, net) ==
    [err |-> err, thumbnail |-> thumbnail, store |-> st, net |-> net]

\* url = await self.files.write(data, content_type); return Resource.Thumbnail(url)
ThumbnailWrite(st, w) ==
    IF w.err # "" THEN ThumbResult(w.err, None, st, 0)
    ELSE ThumbResult("", Some(Thumbnail(w.url)), w.store, 0)

\* A raster branch that lets the errors of PIL through
ThumbnailRaster_Raw(st, pil, content_type) ==
    IF pil.err # "" THEN ThumbResult(pil.err, None, st, 0)
    ELSE ThumbnailWrite(st, FilesWrite(st, pil.data, content_type))

\* The raster branch of Analyzer.thumbnail, on what PIL gave
ThumbnailRaster(st, pil, content_type) ==
    IF pil.err # "" THEN ThumbResult("BrokenResourceError", None, st, 0)
    ELSE ThumbnailWrite(st, FilesWrite(st, pil.data, content_type))

\* A thumbnail that hands every image to PIL
ThumbnailData_AllRaster(st, files, data, content_type) ==
    IF ~files THEN ThumbResult("builtins.ValueError", None, st, 0)
    ELSE IF content_type \in RasterTypes \cup {"image/svg+xml"}
    THEN ThumbnailRaster(st, PilThumbnail(data, ImageFormat(content_type)), content_type)
    ELSE ThumbResult("BrokenResourceError", None, st, 0)

\* Analyzer.thumbnail(data, content_type)
ThumbnailData(st, files, data, content_type) ==
    IF ~files THEN ThumbResult("builtins.ValueError", None, st, 0)
    ELSE IF content_type \in RasterTypes
    THEN ThumbnailRaster(st, PilThumbnail(data, ImageFormat(content_type)), content_type)
    ELSE IF content_type = "image/svg+xml"
    THEN ThumbnailWrite(st, FilesWrite(st, data, content_type))
    ELSE ThumbResult("BrokenResourceError", None, st, 0)

\* Analyzer.thumbnail(url), on what Analyzer.fetch gave
ThumbnailFetched(st, files, f) ==
    IF f.err # "" THEN ThumbResult(f.err, None, st, f.net)
    ELSE [ThumbnailData(st, files, f.data, f.content_type) EXCEPT !.net = f.net]

\* Analyzer.thumbnail(url), given the outcome o of the fetch primitive
ThumbnailUrl(st, files, url, o) == ThumbnailFetched(st, files, AnalyzerFetch(st, files, url, o))

\* ------------------------------------------------------------------ handlers

\* What a handler call comes to: the Resource or None it returns or the error it
\* raises, the store afterwards, and the network fetches it made.
HandlerResult(resource, err, st, net) ==
    [resource |-> resource, err |-> err, store |-> st, net |-> net]

ImageTypes == {"image/bmp", "image/gif", "image/jpeg", "image/png", "image/svg+xml"}
WebpageTypes == {"text/html", "application/xhtml+xml"}

\* A handler that returns a plain Resource for an image
ImageWith_Plain(st, url, content_type, t) ==
    IF t.err # "" THEN HandlerResult(None, t.err, st, 0)
    ELSE HandlerResult(Some(MkResource("Resource", url, content_type, None, t.thumbnail)),
                       "", t.store, 0)

\* return Image(url, content_type, thumbnail=thumbnail), on what thumbnail gave
ImageWith(st, url, content_type, t) ==
    IF t.err # "" THEN HandlerResult(None, t.err, st, 0)
    ELSE HandlerResult(Some(MkResource("Image", url, content_type, None, t.thumbnail)),
                       "", t.store, 0)

\* handle_image
handle_image(st, files, url, content_type, data) ==
    IF content_type \in ImageTypes
    THEN IF files THEN ImageWith(st, url, content_type, ThumbnailData(st, files, data, content_type))
         ELSE HandlerResult(Some(MkResource("Image", url, content_type, None, None)), "", st, 0)
    ELSE HandlerResult(None, "", st, 0)

\* image_url of handle_webpage, from the meta data
MetaImage(meta) ==
    OrElse(DictGet(meta, <<"og:image">>),
           OrElse(DictGet(meta, <<"og:image:url">>), DictGet(meta, <<"og:image:secure_url">>)))

\* description of handle_webpage, from the meta data
MetaDescription(meta) ==
    str_or_none(OrElse(DictGet(meta, <<"og:title">>),
                       OrElse(DictGet(meta, <<"title">>), Some(<<>>)))[1])

\* The image URL handle_webpage reads from a page, None if there is none
WebpageImage(data) == MetaImage(MetaParse(HtmlDoc(data).events))

\* if image_url
Truthy(text) == text # None /\ text # Some(<<>>)

\* An end that lets the errors of thumbnail through as they are
WebpageWith_Unwrapped(st, url, content_type, description, t) ==
    IF t.err # "" THEN HandlerResult(None, t.err, st, t.net)
    ELSE HandlerResult(Some(MkResource("Resource", url, content_type, description, t.thumbnail)),
                       "", t.store, t.net)

\* The end of handle_webpage, on what thumbnail gave
WebpageWith(st, url, content_type, description, t) ==
    IF t.err = "ValueError" THEN HandlerResult(None, "BrokenResourceError", st, t.net)
    ELSE IF t.err # "" THEN HandlerResult(None, t.err, st, t.net)
    ELSE HandlerResult(Some(MkResource("Resource", url, content_type, description, t.thumbnail)),
                       "", t.store, t.net)

\* handle_webpage from the parsed meta data on
WebpageMeta(st, files, url, content_type, description, image_url, o) ==
    IF Truthy(image_url) /\ files
    THEN WebpageWith(st, url, content_type, description,
                     ThumbnailUrl(st, files, UrlJoin(url, image_url[1]), o))
    ELSE HandlerResult(Some(MkResource("Resource", url, content_type, description, None)), "", st, 0)

\* handle_webpage from the meta data that the parser gave on
WebpageParsed(st, files, url, content_type, meta, o) ==
    WebpageMeta(st, files, url, content_type, MetaDescription(meta), MetaImage(meta), o)

\* handle_webpage on what data.decode() and the tokenisation of the text gave
WebpageDecoded(st, files, url, content_type, doc, o) ==
    IF content_type \notin WebpageTypes THEN HandlerResult(None, "", st, 0)
    ELSE IF ~doc.utf8 THEN HandlerResult(None, "BrokenResourceError", st, 0)
    ELSE WebpageParsed(st, files, url, content_type, MetaParse(doc.events), o)

\* handle_webpage, given the outcome o of the fetch of the page's image
handle_webpage(st, files, url, content_type, data, o) ==
    WebpageDecoded(st, files, url, content_type, HtmlDoc(data), o)

\* url.startswith('https://www.youtube.com/watch')
IsWatchUrl(url) ==
    /\ Len(url) >= 4
    /\ SubSeq(url, 1, 3) = <<"https:", "//www.youtube.com", "/">>
    /\ url[4] \in {"watch", "watch?v=1"}

\* dict(parse_qsl(urlsplit(url).query)).get('v', '')
VideoId(url) == IF url[4] = "watch?v=1" THEN "1" ELSE ""

\* The image URL of an API result that has all that handle_youtube reads, else None
VideoImage(a) ==
    IF a.raised = "" /\ a.items # None /\ a.items[1].list /\ Len(a.items[1].elems) > 0
       /\ a.items[1].elems[1].title # None
    THEN a.items[1].elems[1].image
    ELSE None

\* An end that lets the errors of thumbnail through as they are
VideoWith_Unwrapped(st, url, content_type, description, t) ==
    IF t.err # "" THEN HandlerResult(None, t.err, st, 1 + t.net)
    ELSE HandlerResult(Some(MkResource("Video", url, content_type, description, t.thumbnail)),
                       "", t.store, 1 + t.net)

\* The end of handle_youtube, on what thumbnail gave: error.ValueError and
\* LookupError (the KeyError of fetch) become CommunicationError
VideoWith(st, url, content_type, description, t) ==
    IF t.err \in {"ValueError", "KeyError", "LookupError", "TypeError"}
    THEN HandlerResult(None, "CommunicationError", st, 1 + t.net)
    ELSE IF t.err # "" THEN HandlerResult(None, t.err, st, 1 + t.net)
    ELSE HandlerResult(Some(MkResource("Video", url, content_type, description, t.thumbnail)),
                       "", t.store, 1 + t.net)

\* handle_youtube from items[0] on
VideoItem(st, files, url, content_type, item, o) ==
    IF item.title = None \/ item.image = None
    THEN HandlerResult(None, "CommunicationError", st, 1)
    ELSE IF ~files
    THEN HandlerResult(Some(MkResource("Video", url, content_type, item.title, None)), "", st, 1)
    ELSE VideoWith(st, url, content_type, item.title, ThumbnailUrl(st, files, item.image[1], o))

\* A handler that makes the API call again when it failed
VideoResult_Retry(st, files, url, content_type, a, o) ==
    IF a.raised # "" THEN HandlerResult(None, a.raised, st, 2)
    ELSE IF a.items = None \/ ~a.items[1].list
    THEN HandlerResult(None, "CommunicationError", st, 1)
    ELSE IF Len(a.items[1].elems) = 0 THEN HandlerResult(None, "", st, 1)
    ELSE VideoItem(st, files, url, content_type, a.items[1].elems[1], o)

\* handle_youtube from the result a of the API call on
VideoResult(st, files, url, content_type, a, o) ==
    IF a.raised # "" THEN HandlerResult(None, a.raised, st, 1)
    ELSE IF a.items = None \/ ~a.items[1].list
    THEN HandlerResult(None, "CommunicationError", st, 1)
    ELSE IF Len(a.items[1].elems) = 0 THEN HandlerResult(None, "", st, 1)
    ELSE VideoItem(st, files, url, content_type, a.items[1].elems[1], o)

\* The function handle_youtube(key) returns, given the outcome o.api of the API
\* call and the outcome o of the fetch of the preview image
handle_youtube(st, files, url, content_type, data, o) ==
    IF ~IsWatchUrl(url) THEN HandlerResult(None, "", st, 0)
    ELSE VideoResult(st, files, url, content_type, o.api, o)

\* Handlers a caller may configure besides the built-in ones: plain functions and
\* coroutine functions that return None or a Resource described by their name.
CustomHandlers == {"sync_none", "sync_res", "async_none", "async_res"}

\* handle(effective_url, content_type, data, self), awaited if it is awaitable
Handle(h, st, files, url, content_type, data, o) ==
    CASE h = "handle_image" -> handle_image(st, files, url, content_type, data)
      [] h = "handle_webpage" -> handle_webpage(st, files, url, content_type, data, o)
      [] h = "handle_youtube" -> handle_youtube(st, files, url, content_type, data, o)
      [] h \in {"sync_res", "async_res"} ->
            HandlerResult(Some(MkResource("Video", url, content_type, Some(<<h>>), None)), "", st, 0)
      [] OTHER -> HandlerResult(None, "", st, 0)

\* Whether awaiting the result of handler h suspends the analyze call
Suspends(h, files, url, content_type, data) ==
    CASE h = "handle_image" -> content_type \in ImageTypes /\ files
      [] h = "handle_youtube" -> IsWatchUrl(url)
      [] h = "handle_webpage" ->
            content_type \in WebpageTypes /\ HtmlDoc(data).utf8 /\ Truthy(WebpageImage(data)) /\ files
      [] OTHER -> h \in {"async_none", "async_res"}

\* One handler call, for the history
Invocation(i, url, content_type, data, r) ==
    [i |-> i, url |-> url, content_type |-> content_type, data |-> data, result |-> r.resource,
     err |-> r.err]

\* The loop over self.handlers of Analyzer.analyze from handler i on: the first
\* truthy result, the error raised, and the handlers invoked, in order
RECURSIVE HandlerLoop(_, _, _, _, _, _, _, _, _, _)
\* A loop that does not stop at the first resource
LoopStep_NoBreak(hs, i, files, url, content_type, data, o, net, invoked, r) ==
    IF r.err # ""
    THEN [resource |-> r.resource, err |-> r.err, store |-> r.store, net |-> net + r.net,
          invoked |-> Append(invoked, Invocation(i, url, content_type, data, r))]
    ELSE HandlerLoop(hs, i + 1, r.store, files, url, content_type, data, o, net + r.net,
                     Append(invoked, Invocation(i, url, content_type, data, r)))

LoopStep(hs, i, files, url, content_type, data, o, net, invoked, r) ==
    IF r.err # "" \/ r.resource # None
    THEN [resource |-> r.resource, err |-> r.err, store |-> r.store, net |-> net + r.net,
          invoked |-> Append(invoked, Invocation(i, url, content_type, data, r))]
    ELSE HandlerLoop(hs, i + 1, r.store, files, url, content_type, data, o, net + r.net,
                     Append(invoked, Invocation(i, url, content_type, data, r)))

HandlerLoop(hs, i, st, files, url, content_type, data, o, net, invoked) ==
    IF i > Len(hs)
    THEN [resource |-> None, err |-> "", store |-> st, net |-> net, invoked |-> invoked]
    ELSE LoopStep(hs, i, files, url, content_type, data, o, net, invoked,
                  Handle(hs[i], st, files, url, content_type, data, o))

\* ------------------------------------------------------------------ the web

UA == <<"http:", "//h", "/", "a">>
UB == <<"http:", "//h", "/", "b">>
UI == <<"http:", "//h", "/", "img">>
UR == <<"http:", "//h", "/", "r">>
UF == <<"file:", "/", "#b1", ".bin">>
UX == <<"ftp:", "//h", "/", "x">>
US == <<"file:", "/", "#s1", ".svg">>
\* file URLs of a stored page, with an extension mimetypes does not know, and
\* with a directory in the name
UP == <<"file:", "/", "#h1", ".html">>
UFX == <<"file:", "/", "#b1", ".xyz">>
UFD == <<"file:", "/", "d", "/", "#b1", ".bin">>

\* The URLs callers analyze.
Urls == {UA, UB, UI, UR, UF, UX, US, UP, UFX, UFD}

\* A video page and the URL of its preview image
UY == <<"https:", "//www.youtube.com", "/", "watch?v=1">>
UYN == <<"https:", "//www.youtube.com", "/", "watch">>
UV == <<"https:", "//h", "/", "hq.jpg">>

\* The results of GET videos?id=video_id&part=snippet: for a video, its title
\* and preview image; no video for an unknown id; results that lack what
\* handle_youtube reads; a CommunicationError
ApiResults(video_id) ==
    { ApiResult("", Some(ApiItems(TRUE, <<>>))), ApiResult("CommunicationError", None) }
    \cup IF video_id = "" THEN {}
         ELSE { ApiResult("", Some(ApiItems(TRUE, <<ApiItem(Some(<<"Clip">>), Some(UV))>>))),
                ApiResult("", Some(ApiItems(TRUE, <<ApiItem(Some(<<"Clip">>), Some(UX))>>))),
                ApiResult("", Some(ApiItems(TRUE, <<ApiItem(Some(<<"Clip">>), None)>>))),
                ApiResult("", Some(ApiItems(TRUE, <<ApiItem(None, Some(UV))>>))),
                ApiResult("", Some(ApiItems(FALSE, <<>>))),
                ApiResult("", None) }

StatusCodes == {400, 401, 402, 403, 404, 405, 410, 451, 500}

\* The response a server usually gives for a URL: UR redirects to UA, UB is a
\* page whose image is UI.
Usual(url) ==
    CASE url = UA -> {Outcome("ok", 200, "blob", Some(<<"application/octet-stream">>), UA)}
      [] url = UB -> {Outcome("ok", 200, "page", Some(<<"text/html", ";", "charset=utf-8">>), UB)}
      [] url = UI -> {Outcome("ok", 200, "png", Some(<<"image/png">>), UI)}
      [] url = UR -> {Outcome("ok", 200, "blob", Some(<<"application/octet-stream">>), UA)}
      [] url = UY -> {Outcome("ok", 200, "page4", Some(<<"text/html">>), UY)}
      [] url = UYN -> {Outcome("ok", 200, "page2", Some(<<"text/html">>), UYN)}
      [] url = UV -> {Outcome("ok", 200, "jpg", Some(<<"image/jpeg">>), UV)}
      [] OTHER -> {}

\* Other responses a server may give: no Content-Type header, an empty one, a
\* corrupt image, an image bomb, an SVG, a JPEG, a PNG served as a bitmap,
\* pages without image, with an image at an ftp: URL, with itself as its image,
\* or in a bad encoding.
Unusual(url) ==
    CASE url = UA -> {Outcome("ok", 200, "blob", None, UA),
                      Outcome("ok", 200, "blob", Some(<<>>), UA)}
      [] url = UB -> {Outcome("ok", 200, "page2", Some(<<"text/html">>), UB),
                      Outcome("ok", 200, "page3", Some(<<"application/xhtml+xml">>), UB),
                      Outcome("ok", 200, "page4", Some(<<"text/html">>), UB),
                      Outcome("ok", 200, "badutf", Some(<<"text/html">>), UB)}
      [] url = UI -> {Outcome("ok", 200, "badpng", Some(<<"image/png">>), UI),
                      Outcome("ok", 200, "bomb", Some(<<"image/gif">>), UI),
                      Outcome("ok", 200, "svg", Some(<<"image/svg+xml">>), UI),
                      Outcome("ok", 200, "jpg", Some(<<"image/jpeg">>), UI),
                      Outcome("ok", 200, "png", Some(<<"image/bmp">>), UI)}
      [] url = UV -> {Outcome("ok", 200, "jpg", None, UV),
                      Outcome("ok", 200, "badpng", Some(<<"image/jpeg">>), UV)}
      [] OTHER -> {}

\* webapi.fetch(url): a response, an HTTPClientError with its status code, a
\* ValueError for a URL scheme it does not support, or a CommunicationError for
\* a failure to connect
FetchOutcomes(url) ==
    IF UrlScheme(url) \notin {"http:", "https:"}
    THEN {Outcome("builtins.ValueError", 0, "", None, <<>>)}
    ELSE Usual(url) \cup Unusual(url)
         \cup {Outcome("HTTPClientError", code, "", None, <<>>) : code \in StatusCodes}
         \cup {Outcome("CommunicationError", 0, "", None, <<>>)}

NoOutcome == Outcome("", 0, "", None, <<>>)

\* ------------------------------------------------------------------ state

\* Concurrent analyze calls (coroutines on the one event loop).
Calls == {1, 2}

DefaultHandlers == <<"handle_image", "handle_webpage">>

\* Handler lists and file storage an Analyzer is constructed with.
Configs ==
    { [handlers |-> DefaultHandlers, files |-> TRUE],
      [handlers |-> DefaultHandlers, files |-> FALSE],
      [handlers |-> <<"sync_none", "async_none", "sync_res", "async_res">>, files |-> FALSE],
      [handlers |-> <<"async_none", "async_res", "sync_res">>, files |-> FALSE],
      [handlers |-> <<"async_none", "sync_none">>, files |-> FALSE],
      [handlers |-> <<>>, files |-> FALSE] }

VARIABLES
    handlers,   \* Analyzer.handlers
    files,      \* whether Analyzer.files is set
    store,      \* the directory of Analyzer.files
    cache,      \* Analyzer._cache
    now,        \* datetime.utcnow()
    calls,      \* the analyze calls in flight: where each is suspended, with its locals
    ev,         \* history: the last step taken and what it returned or raised
    order,      \* history: the cached keys, ordered by their latest insertion
    fresh,      \* history: the last successful analysis, if no key was inserted since
    gc,         \* the garbage_collect calls in flight, with their locals
    removed,    \* history: the files a collection removed that were not written again
    dumps       \* the Files.write calls in flight: where their _dump is, with its locals

vars == <<handlers, files, store, cache, now, calls, ev, order, fresh, gc, removed, dumps>>

NoFetch == FetchResult("", "", "", <<>>, 0)
Idle == [pc |-> "idle", url |-> <<>>, fetched |-> NoFetch, net |-> 0]

\* A garbage_collect call: where it is and its locals; left are the paths that
\* _unlink has yet to come to; before and disturbed are history, the store when
\* the call listed it and whether it was written to since
IdleGc == [pc |-> "idle", garbage |-> {}, left |-> {}, references |-> {}, before |-> EmptyStore,
           disturbed |-> FALSE]

\* A Files.write call: where its _dump is (before open(path, 'wb'), or before
\* f.write(data) and the close), the file name, the data, the URL it returns,
\* and whether the name still is a link to the file that _dump opened; had is
\* history, whether the file held the data when write was called
IdleDump == [pc |-> "idle", name |-> <<>>, data |-> "", content_type |-> "", url |-> <<>>,
             linked |-> FALSE, had |-> FALSE]

\* What a call on the file store was given and what it gave, for the history;
\* for a write, before is the store before it, again whether the step before
\* was a write of the same data and media type that succeeded, prior its URL,
\* wdata and wtype what the step before was given;
\* for a collection, gone are the files that its own _unlink removed;
\* for a read, again is whether the step before was a write that returned the
\* URL read, wdata and wtype what it was given
NoFile == [url |-> <<>>, err |-> "", data |-> "", content_type |-> "", n |-> 0,
           references |-> {}, before |-> EmptyStore, disturbed |-> FALSE,
           again |-> FALSE, prior |-> <<>>, wdata |-> "", wtype |-> "", gone |-> {}]

\* The elements of a page, the media type it was served with and the meta data
\* the parser read from it, for the history
NoPage == [elements |-> <<>>, content_type |-> "", meta |-> <<>>]

\* A resource, its JSON representation and what parsing that gave, for the history
NoDoc == [of |-> None, json |-> None, parsed |-> None, err |-> ""]

Event(type, url, resource, err, o, net, fetched, invoked, setlog) ==
    [type |-> type, url |-> url, resource |-> resource, err |-> err,
     prim |-> o.k, code |-> o.code, body |-> o.body, header |-> o.header, api |-> o.api,
     net |-> net,
     fetched |-> fetched,
     invoked |-> invoked, setlog |-> setlog, age |-> -1, file |-> NoFile, doc |-> NoDoc,
     page |-> NoPage]

\* How long ago the entry of url was inserted, -1 if there is none
Age(c, url, t) == IF url \in CacheKeys(c) THEN t - CacheEntry(c, url).at ELSE -1

\* The lookup of url that gave g, for the history
LookupEvent(url, g) ==
    [Event(IF g.hit THEN "hit" ELSE "miss", url, g.resource, "", NoOutcome, 0, NoFetch, <<>>, <<>>)
        EXCEPT !.age = Age(cache, url, now)]

NoEvent(type) == Event(type, <<>>, None, "", NoOutcome, 0, NoFetch, <<>>, <<>>)

FileEvent(type, f) == [NoEvent(type) EXCEPT !.file = f]

\* History of insertions: key is the latest inserted; keys is what the cache holds after
OrderInsert(ord, key, keys) ==
    SelectSeq(Append(SelectSeq(ord, LAMBDA k : k # key), key), LAMBDA k : k \in keys)

\* What one _set_cache call did, for the history
SetRecord(c, ord, key, c2) ==
    [key |-> key, present |-> key \in CacheKeys(c), size |-> Len(c),
     evicted |-> (CacheKeys(c) \ CacheKeys(c2)) \ {key},
     oldest |-> IF Len(ord) = 0 THEN None ELSE Some(ord[1]),
     before |-> c, after |-> c2]

\* A store that Files.write(b'...', 'application/octet-stream') has written to
BlobStore == FilesWrite(EmptyStore, "blob", "application/octet-stream").store

\* A store that Files.write(b'<svg ...', 'image/svg+xml') has written to
SvgStore == FilesWrite(EmptyStore, "svg", "image/svg+xml").store

\* A store that Files.write(b'<title>Happy Blog ...', 'text/html') has written to
PageStore == FilesWrite(EmptyStore, "page", "text/html").store

InitWith(cfgs, stores) ==
    /\ \E cfg \in cfgs :
          /\ handlers = cfg.handlers
          /\ files = cfg.files
          /\ store \in stores
    /\ cache = <<>>
    /\ now = 0
    /\ calls = [c \in Calls |-> Idle]
    /\ ev = NoEvent("init")
    /\ order = <<>>
    /\ fresh = None
    /\ gc = [c \in Calls |-> IdleGc]
    /\ removed = {}
    /\ dumps = [w \in Calls |-> IdleDump]

\* A fallback described by the URL that was asked for, not the effective one
Fallback_Described(f) == MkResource("Resource", f.eff, f.content_type, Some(f.eff), None)

\* Resource(effective_url, content_type), when no handler gave a resource
Fallback(f) == MkResource("Resource", f.eff, f.content_type, None, None)

\* The handler loop of an analyze call on what it fetched
Handlers(f, o) ==
    HandlerLoop(handlers, 1, store, files, f.eff, f.content_type, f.data, o, 0, <<>>)

\* Whether a handler loop that invoked these handlers suspended
SuspendsIn(f, invoked) ==
    \E j \in 1..Len(invoked) :
        Suspends(handlers[invoked[j].i], files, f.eff, f.content_type, f.data)

\* Whether the handler loop suspends on what was fetched
WillSuspend(f) == SuspendsIn(f, Handlers(f, NoOutcome).invoked)

\* Whether the handler loop gets to handle_youtube with a URL it takes
VideoIn(f, invoked) ==
    IsWatchUrl(f.eff) /\ \E j \in 1..Len(invoked) : handlers[invoked[j].i] = "handle_youtube"

\* The fetch a handler asks for (the preview image of a video whose API result
\* is a, the image of a web page), None if there is none
NestedIn(f, invoked, a) ==
    IF VideoIn(f, invoked) /\ VideoImage(a) # None /\ files THEN VideoImage(a)
    ELSE IF \E j \in 1..Len(invoked) :
               /\ handlers[invoked[j].i] = "handle_webpage"
               /\ Suspends("handle_webpage", files, f.eff, f.content_type, f.data)
    THEN Some(UrlJoin(f.eff, WebpageImage(f.data)[1]))
    ELSE None

NestedFetch(f, a) == NestedIn(f, Handlers(f, WithApi(NoOutcome, a)).invoked, a)

\* The outcomes of the fetch primitive for Analyzer.fetch(url): none if it reads a file
PrimOutcomes(url) ==
    IF files /\ UrlScheme(url) = "file:" THEN {NoOutcome} ELSE FetchOutcomes(url)

\* Files were written: the store is st2 now
Stored(st2) ==
    /\ store' = st2
    /\ removed' = removed \ DOMAIN st2
    /\ gc' = [c \in Calls |-> IF gc[c].pc = "unlinking" /\ st2 # store
                              THEN [gc[c] EXCEPT !.disturbed = TRUE] ELSE gc[c]]

\* An analyze that awaits between its two insertions
Return_Suspended(c, url, f, o, loop, net, resource, c1, o1) ==
    /\ cache' = c1
    /\ order' = o1
    /\ ev' = Event("inserted", url, Some(resource), "", o, net + loop.net, f, loop.invoked,
                   << SetRecord(cache, order, url, c1) >>)
    /\ Stored(loop.store)
    /\ calls' = [calls EXCEPT ![c] = [pc |-> "inserting", url |-> url, fetched |-> f,
                                      net |-> net + loop.net]]
    /\ UNCHANGED fresh

\* self._set_cache(url, resource); self._set_cache(resource.url, resource); return resource
Return(c, url, f, o, loop, net, resource, c1, o1) ==
    /\ cache' = _set_cache(c1, resource.url, resource, now)
    /\ order' = OrderInsert(o1, resource.url, CacheKeys(cache'))
    /\ fresh' = Some([url |-> url, resource |-> resource, at |-> now, net |-> net + loop.net])
    /\ ev' = Event("return", url, Some(resource), "", o, net + loop.net, f, loop.invoked,
                   << SetRecord(cache, order, url, c1),
                      SetRecord(c1, o1, resource.url, cache') >>)
    /\ Stored(loop.store)
    /\ calls' = [calls EXCEPT ![c] = Idle]

\* Analyzer.analyze after the first _set_cache, which gave c1
Cached(c, url, f, o, loop, net, resource, c1) ==
    Return(c, url, f, o, loop, net, resource, c1, OrderInsert(order, url, CacheKeys(c1)))

\* An analyze that caches the fallback resource of what it fetched when a handler
\* raises
Finish_CachesFailure(c, url, f, o, loop, net) ==
    IF loop.err # ""
    THEN /\ ev' = Event("raise", url, None, loop.err, o, net + loop.net, f, loop.invoked, <<>>)
         /\ Stored(loop.store)
         /\ calls' = [calls EXCEPT ![c] = Idle]
         /\ cache' = _set_cache(cache, url, Fallback(f), now)
         /\ order' = OrderInsert(order, url, CacheKeys(cache'))
         /\ UNCHANGED fresh
    ELSE IF loop.resource # None
    THEN Cached(c, url, f, o, loop, net, loop.resource[1],
                _set_cache(cache, url, loop.resource[1], now))
    ELSE Cached(c, url, f, o, loop, net, Fallback(f), _set_cache(cache, url, Fallback(f), now))

\* Analyzer.analyze from the end of the handler loop: the error raised, or the
\* resource cached under both URLs and returned
Finish(c, url, f, o, loop, net) ==
    IF loop.err # ""
    THEN /\ ev' = Event("raise", url, None, loop.err, o, net + loop.net, f, loop.invoked, <<>>)
         /\ Stored(loop.store)
         /\ calls' = [calls EXCEPT ![c] = Idle]
         /\ UNCHANGED <<cache, order, fresh>>
    ELSE IF loop.resource # None
    THEN Cached(c, url, f, o, loop, net, loop.resource[1],
                _set_cache(cache, url, loop.resource[1], now))
    ELSE Cached(c, url, f, o, loop, net, Fallback(f), _set_cache(cache, url, Fallback(f), now))

\* The cache lookup of analyze, on what _get_cache gave
Lookup(c, url, g) ==
    /\ cache' = g.cache
    /\ order' = SelectSeq(order, LAMBDA k : k \in CacheKeys(g.cache))
    /\ ev' = LookupEvent(url, g)
    /\ IF g.hit THEN UNCHANGED calls
       ELSE calls' = [calls EXCEPT ![c] = [Idle EXCEPT !.pc = "fetching", !.url = url]]

\* analyze(url) is called: the cache lookup, up to the await of the fetch
Analyze(c, url) ==
    /\ calls[c].pc = "idle"
    /\ Lookup(c, url, _get_cache(cache, url, now))
    /\ UNCHANGED <<dumps, handlers, files, store, now, fresh, gc, removed>>

\* analyze on what Analyzer.fetch gave: handlers that do not suspend run on
Fetched(c, url, o, f) ==
    IF f.err # ""
    THEN /\ ev' = Event("raise", url, None, f.err, o, f.net, NoFetch, <<>>, <<>>)
         /\ calls' = [calls EXCEPT ![c] = Idle]
         /\ UNCHANGED <<store, cache, order, fresh, gc, removed>>
    ELSE IF WillSuspend(f)
    THEN /\ ev' = Event("fetched", url, None, "", o, f.net, f, <<>>, <<>>)
         /\ calls' = [calls EXCEPT ![c] = [pc |-> "handling", url |-> url,
                                           fetched |-> f, net |-> f.net]]
         /\ UNCHANGED <<store, cache, order, fresh, gc, removed>>
    ELSE Finish(c, url, f, o, Handlers(f, NoOutcome), f.net)

\* The fetch of a call returns or raises
FetchReturn(c, o) ==
    /\ calls[c].pc = "fetching"
    /\ o \in PrimOutcomes(calls[c].url)
    /\ Fetched(c, calls[c].url, o, AnalyzerFetch(store, files, calls[c].url, o))
    /\ UNCHANGED <<dumps, handlers, files, now>>

\* The outcomes of the fetch a handler asks for
NestedOutcomes(nested) == IF nested = None THEN {NoOutcome} ELSE PrimOutcomes(nested[1])

\* The outcomes of the API call a handler makes
ApiOutcomes(f) ==
    IF VideoIn(f, Handlers(f, NoOutcome).invoked) THEN ApiResults(VideoId(f.eff)) ELSE {NoApi}

\* The outcomes of what the handlers of a call await: the API call and the fetch
HandlerOutcomes(f) ==
    UNION { {WithApi(o, a) : o \in NestedOutcomes(NestedFetch(f, a))} : a \in ApiOutcomes(f) }

\* The awaited handlers of a call are through
HandlersReturn(c, o) ==
    /\ calls[c].pc = "handling"
    /\ o \in HandlerOutcomes(calls[c].fetched)
    /\ Finish(c, calls[c].url, calls[c].fetched, o, Handlers(calls[c].fetched, o), calls[c].net)
    /\ UNCHANGED <<dumps, handlers, files, now>>

\* Time passes
Tick ==
    /\ now < MaxTime
    /\ now' = now + 1
    /\ ev' = NoEvent("tick")
    /\ UNCHANGED <<dumps, handlers, files, store, cache, calls, order, fresh, gc, removed>>

\* ------------------------------------------------------------------ Spec:
\* concurrent analyze calls on an Analyzer with the default handlers and files,
\* each URL answering as usual or with 404, as time passes.

CacheUrls == {UA, UB, UI, UR}

CacheOutcomes(url) == Usual(url) \cup {Outcome("HTTPClientError", 404, "", None, <<>>)}

Init == InitWith({[handlers |-> DefaultHandlers, files |-> TRUE]}, {EmptyStore})

Next ==
    \/ \E c \in Calls, url \in CacheUrls : Analyze(c, url)
    \/ \E c \in Calls : \E o \in CacheOutcomes(calls[c].url) : FetchReturn(c, o)
    \/ \E c \in Calls : \E o \in {NoOutcome} \cup CacheOutcomes(UI) : HandlersReturn(c, o)
    \/ Tick

Spec == Init /\ [][Next]_vars

\* ------------------------------------------------------------------ SpecCall:
\* one analyze call on a new Analyzer, for every configuration, URL and outcome
\* of the fetches.

AllOutcomes == {NoOutcome} \cup UNION {FetchOutcomes(u) : u \in Urls}

\* The image data and media types that callers pass to thumbnail
ThumbnailInputs == {"png", "jpg", "badpng", "bomb", "svg", "blob"}
ThumbnailTypes ==
    {"image/png", "image/jpeg", "image/gif", "image/bmp", "image/svg+xml", "image/tiff",
     "text/plain"}

\* analyzer.thumbnail(data, content_type), on what it gave
ThumbnailGave(data, content_type, t) ==
    /\ Stored(t.store)
    /\ ev' = FileEvent("thumbnail",
                       [NoFile EXCEPT !.url = IF t.thumbnail = None THEN <<>>
                                              ELSE t.thumbnail[1].url,
                                      !.err = t.err, !.data = data,
                                      !.content_type = content_type, !.before = store])

ThumbnailCall(data, content_type) ==
    /\ ev.type = "init"
    /\ ThumbnailGave(data, content_type, ThumbnailData(store, files, data, content_type))
    /\ UNCHANGED <<dumps, handlers, files, cache, now, calls, order, fresh>>

InitCall == InitWith(Configs, {EmptyStore, BlobStore, SvgStore, PageStore})

NextCall ==
    \/ \E url \in Urls : ev.type = "init" /\ Analyze(1, url)
    \/ \E o \in AllOutcomes : FetchReturn(1, o)
    \/ \E o \in AllOutcomes : HandlersReturn(1, o)
    \/ \E data \in ThumbnailInputs, content_type \in ThumbnailTypes :
          ThumbnailCall(data, content_type)

SpecCall == InitCall /\ [][NextCall]_vars

\* ------------------------------------------------------------------ SpecVideo:
\* one analyze call, or one thumbnail call with a URL, on a new Analyzer that has
\* the handlers of a video platform, of images and of web pages.

VideoHandlers == <<"handle_youtube", "handle_image", "handle_webpage">>

VideoConfigs ==
    { [handlers |-> VideoHandlers, files |-> TRUE],
      [handlers |-> VideoHandlers, files |-> FALSE],
      [handlers |-> DefaultHandlers, files |-> TRUE] }

VideoUrls == {UY, UYN, UB, UV, UX}

VideoOutcomes ==
    UNION { {WithApi(o, a) : a \in {NoApi} \cup ApiResults("1")} :
            o \in {NoOutcome} \cup UNION {FetchOutcomes(u) : u \in VideoUrls \cup {UI}} }

\* analyzer.thumbnail(url), on what it gave
ThumbnailOfGave(url, o, t) ==
    /\ Stored(t.store)
    /\ ev' = [Event("thumbnail_url", url, None, t.err, o, t.net, NoFetch, <<>>, <<>>)
                 EXCEPT !.file = [NoFile EXCEPT !.url = IF t.thumbnail = None THEN <<>>
                                                        ELSE t.thumbnail[1].url,
                                                !.err = t.err, !.before = store]]

ThumbnailOf(url, o) ==
    /\ ev.type = "init"
    /\ o \in PrimOutcomes(url)
    /\ ThumbnailOfGave(url, o, ThumbnailUrl(store, files, url, o))
    /\ UNCHANGED <<dumps, handlers, files, cache, now, calls, order, fresh>>

InitVideo == InitWith(VideoConfigs, {EmptyStore})

NextVideo ==
    \/ \E url \in VideoUrls : ev.type = "init" /\ Analyze(1, url)
    \/ \E o \in VideoOutcomes : FetchReturn(1, o)
    \/ \E o \in VideoOutcomes : HandlersReturn(1, o)
    \/ \E url \in VideoUrls \cup {UI}, o \in VideoOutcomes : ThumbnailOf(url, o)

SpecVideo == InitVideo /\ [][NextVideo]_vars

\* ------------------------------------------------------------------ SpecRetry:
\* one caller that analyzes again and again, on an Analyzer with files and the
\* default handlers or the handlers of a video platform, of images and of web
\* pages, each operation of the network succeeding or failing, as time passes.

RetryConfigs ==
    { [handlers |-> DefaultHandlers, files |-> TRUE],
      [handlers |-> VideoHandlers, files |-> TRUE] }

RetryUrls == {UA, UB, UY}

\* What a fetch comes to: the usual response, one without Content-Type header,
\* 404, 403 or no connection; what the API call comes to: a video, nothing that
\* handle_youtube can read, or no connection
RetryOutcomes ==
    UNION { {WithApi(o, a) :
                a \in { NoApi, ApiResult("CommunicationError", None), ApiResult("", None),
                        ApiResult("", Some(ApiItems(TRUE, <<ApiItem(Some(<<"Clip">>), Some(UV))>>))) }} :
            o \in {NoOutcome} \cup UNION {Usual(u) : u \in RetryUrls \cup {UI, UV}}
                  \cup { Outcome("ok", 200, "blob", None, UA),
                         Outcome("HTTPClientError", 404, "", None, <<>>),
                         Outcome("HTTPClientError", 403, "", None, <<>>),
                         Outcome("CommunicationError", 0, "", None, <<>>) } }

InitRetry == InitWith(RetryConfigs, {EmptyStore})

NextRetry ==
    \/ \E url \in RetryUrls : Analyze(1, url)
    \/ \E o \in RetryOutcomes : FetchReturn(1, o)
    \/ \E o \in RetryOutcomes : HandlersReturn(1, o)
    \/ Tick

SpecRetry == InitRetry /\ [][NextRetry]_vars

\* ------------------------------------------------------------------ SpecRace:
\* two callers that analyze the same URLs at the same time on an Analyzer with
\* the default handlers and files, the server answering each fetch in its own way.

RaceUrls == {UA, UI}

\* What the server answers: a fetch of http://h/img may get a PNG, a JPEG, an
\* SVG, a corrupt image; a fetch of http://h/a its data with or without a
\* media type; either may get 404
RaceOutcomes(url) ==
    Usual(url) \cup Unusual(url) \cup {Outcome("HTTPClientError", 404, "", None, <<>>)}

InitRace == InitWith({[handlers |-> DefaultHandlers, files |-> TRUE]}, {EmptyStore})

NextRace ==
    \/ \E c \in Calls, url \in RaceUrls : Analyze(c, url)
    \/ \E c \in Calls : \E o \in RaceOutcomes(calls[c].url) : FetchReturn(c, o)
    \/ \E c \in Calls : HandlersReturn(c, NoOutcome)

SpecRace == InitRace /\ [][NextRace]_vars

\* ------------------------------------------------------------------ SpecPage:
\* the meta data parser and the web page handler on pages made of a few title
\* and meta elements.

MaxElements == 2

TitleElement(text) == [tag |-> "title", key |-> <<"title">>, text |-> text]

MetaElement(key, content) == [tag |-> "meta", key |-> <<key>>, text |-> content]

\* <title>A</title>, <title>B</title>, <title> </title>, and <meta> elements for
\* the Open Graph title (empty and blank too), the three keys of the image (a
\* relative and an absolute URL, an empty one) and a title given as meta data
PageElements ==
    { TitleElement(<<"A">>), TitleElement(<<"B">>), TitleElement(<<" ">>),
      MetaElement("og:title", <<"X">>), MetaElement("og:title", <<" ">>),
      MetaElement("og:title", <<>>),
      MetaElement("og:image", <<"img">>), MetaElement("og:image", <<>>),
      MetaElement("og:image:url", <<"https:", "//h", "/", "hq.jpg">>),
      MetaElement("og:image:secure_url", <<"img">>),
      MetaElement("title", <<"M">>) }

\* What the tokenisation reports for an element: Open Graph keys are given as
\* property, other keys as name
ElementEvents(e) ==
    IF e.tag = "title"
    THEN << StartTag("title", <<>>), CharData(e.text), EndTag("title") >>
    ELSE << StartTag("meta", << Attr(IF e.key[1] = "title" THEN "name" ELSE "property",
                                     Some(e.key)),
                                Attr("content", Some(e.text)) >>) >>

RECURSIVE PageEvents(_)
PageEvents(elements) ==
    IF Len(elements) = 0 THEN <<>>
    ELSE ElementEvents(elements[1]) \o PageEvents(Tail(elements))

Pages == UNION { [1..n -> PageElements] : n \in 0..MaxElements }

PageTypes == {"text/html", "application/xhtml+xml", "text/plain"}

\* The fetch of the image of the page answers as usual or with 404
PageOutcomes(meta) ==
    IF Truthy(MetaImage(meta)) /\ files
    THEN CacheOutcomes(UrlJoin(UB, MetaImage(meta)[1]))
    ELSE {NoOutcome}

PageRecord(elements, content_type, meta) ==
    [elements |-> elements, content_type |-> content_type, meta |-> meta]

\* parser.feed(html) on a page: the meta data read
Scan(elements) ==
    /\ ev.type = "init"
    /\ ev' = [NoEvent("scanned") EXCEPT
                 !.page = PageRecord(elements, "", MetaParse(PageEvents(elements)))]
    /\ UNCHANGED <<dumps, handlers, files, store, cache, now, calls, order, fresh, gc, removed>>

\* handle_webpage(UB, content_type, data, analyzer), on what it gave
PageHandled(elements, content_type, meta, o, r) ==
    /\ Stored(r.store)
    /\ ev' = [Event("handled", UB, r.resource, r.err, o, r.net, NoFetch, <<>>, <<>>) EXCEPT
                 !.page = PageRecord(elements, content_type, meta)]

PageHandle(elements, content_type, meta, o) ==
    /\ ev.type = "init"
    /\ o \in PageOutcomes(meta)
    /\ PageHandled(elements, content_type, meta, o,
                   WebpageDecoded(store, files, UB, content_type,
                                  [utf8 |-> TRUE, events |-> PageEvents(elements)], o))
    /\ UNCHANGED <<dumps, handlers, files, cache, now, calls, order, fresh>>

InitPage ==
    InitWith({[handlers |-> DefaultHandlers, files |-> TRUE],
              [handlers |-> DefaultHandlers, files |-> FALSE]}, {EmptyStore})

NextPage ==
    \/ \E elements \in Pages : Scan(elements)
    \/ \E elements \in Pages, content_type \in PageTypes :
          \E o \in {NoOutcome} \cup CacheOutcomes(UI) \cup CacheOutcomes(UV) :
             PageHandle(elements, content_type, MetaParse(PageEvents(elements)), o)

SpecPage == InitPage /\ [][NextPage]_vars

\* ------------------------------------------------------------------ SpecFiles:
\* writes, reads and garbage collections on a file store, one collection at a
\* time, writes and reads running while the collection awaits.

\* Whether the last step was a write of this data and media type that succeeded
WroteSame(data, content_type) ==
    /\ ev.type = "write"
    /\ ev.file.err = ""
    /\ ev.file.data = data
    /\ ev.file.content_type = content_type

\* files.write(data, content_type), on what Files.write gave
Written(data, content_type, w) ==
    /\ Stored(w.store)
    /\ ev' = FileEvent("write", [NoFile EXCEPT !.url = w.url, !.err = w.err, !.data = data,
                                               !.content_type = content_type,
                                               !.before = store,
                                               !.again = WroteSame(data, content_type),
                                               !.prior = ev.file.url,
                                               !.wdata = ev.file.data,
                                               !.wtype = ev.file.content_type])

Write(data, content_type) ==
    /\ Written(data, content_type, FilesWrite(store, data, content_type))
    /\ UNCHANGED <<dumps, handlers, files, cache, now, calls, order, fresh>>

\* Whether the last step was a write that returned this URL
Wrote(url) == ev.type = "write" /\ ev.file.err = "" /\ ev.file.url = url

\* files.read(url), on what Files.read gave
ReadGave(url, r) ==
    ev' = FileEvent("read", [NoFile EXCEPT !.url = url, !.err = r.err, !.data = r.data,
                                           !.content_type = r.content_type,
                                           !.again = Wrote(url),
                                           !.wdata = ev.file.data,
                                           !.wtype = ev.file.content_type])

Read(url) ==
    /\ ReadGave(url, FilesRead(store, url))
    /\ UNCHANGED <<dumps, handlers, files, store, cache, now, calls, order, fresh, gc, removed>>

\* files.garbage_collect(references) is called: up to the await of _unlink
GcList(c, references) ==
    /\ gc[c].pc = "idle"
    /\ gc' = [gc EXCEPT ![c] = [pc |-> "unlinking",
                                garbage |-> Garbage(DOMAIN store, references),
                                left |-> Garbage(DOMAIN store, references),
                                references |-> references, before |-> store,
                                disturbed |-> FALSE]]
    /\ ev' = FileEvent("listed", [NoFile EXCEPT !.references = references, !.before = store])
    /\ UNCHANGED <<dumps, handlers, files, store, cache, now, calls, order, fresh, removed>>

\* The other collections in flight see the store change
Disturb(c, st2) ==
    [d \in Calls |-> IF d = c THEN IdleGc
                     ELSE IF gc[d].pc = "unlinking" /\ st2 # store
                     THEN [gc[d] EXCEPT !.disturbed = TRUE] ELSE gc[d]]

\* _unlink removed the paths of gone and the collection returns n, or raises err
Unlinked(c, gone, n, err) ==
    /\ store' = Unlink(store, gone)
    /\ removed' = removed \cup gone
    /\ gc' = Disturb(c, Unlink(store, gone))
    /\ ev' = FileEvent(IF err = "" THEN "collected" ELSE "collect_raise",
                       [NoFile EXCEPT !.n = n, !.err = err, !.references = gc[c].references,
                                      !.before = gc[c].before, !.disturbed = gc[c].disturbed,
                                      !.gone = gone])

\* _unlink is through and garbage_collect returns len(garbage); Path.unlink raises
\* FileNotFoundError at the first path that is gone, the paths before it in the
\* iteration of the set being removed
GcUnlink(c) ==
    /\ gc[c].pc = "unlinking"
    /\ IF gc[c].garbage \subseteq DOMAIN store
       THEN Unlinked(c, gc[c].garbage, Cardinality(gc[c].garbage), "")
       ELSE \E gone \in SUBSET (gc[c].garbage \cap DOMAIN store) :
               Unlinked(c, gone, 0, "FileNotFoundError")
    /\ UNCHANGED <<dumps, handlers, files, cache, now, calls, order, fresh>>

\* What callers write: byte strings with their media type, one of them unknown,
\* one in upper case, one byte string under two media types
FileContents ==
    { <<"blob", "application/octet-stream">>, <<"png_t", "image/png">>,
      <<"blob", "application/x-unknown">>, <<"png_t", "IMAGE/PNG">>,
      <<"blob", "text/plain">> }

\* The URLs callers pass as references: of the files written and of a file
\* never written
FileUrls ==
    { <<"file:", "/", "#b1", ".bin">>, <<"file:", "/", "#b1", ".txt">>,
      <<"file:", "/", "#p2", ".png">>, <<"file:", "/", "#zz", ".bin">> }

\* The URLs callers read: file URLs, the URL of a web resource, URLs with an
\* unknown extension, with a directory, of a file outside the store directory,
\* and a bare file name
ReadUrls ==
    FileUrls \cup {UA, UFX, UFD, <<"file:", "/", "..", "/", "secret", ".txt">>, <<"#b1", ".bin">>}

InitFiles == InitWith({[handlers |-> DefaultHandlers, files |-> TRUE]}, {EmptyStore})

NextFiles ==
    \/ \E d \in FileContents : Write(d[1], d[2])
    \/ \E url \in ReadUrls : Read(url)
    \/ \E references \in SUBSET FileUrls : GcList(1, references)
    \/ GcUnlink(1)

SpecFiles == InitFiles /\ [][NextFiles]_vars

\* ------------------------------------------------------------------ SpecStore:
\* analyze calls on an Analyzer with the default handlers and files while the
\* file store is garbage collected.

\* An image and a page whose image it is
StoreUrls == {UI, UB}

\* The references a collection is given: none, or the thumbnail of the image
StoreReferences == SUBSET {<<"file:", "/", "#p2", ".png">>}

InitStore == InitWith({[handlers |-> DefaultHandlers, files |-> TRUE]}, {EmptyStore})

NextStore ==
    \/ \E url \in StoreUrls : Analyze(1, url)
    \/ \E o \in CacheOutcomes(calls[1].url) : FetchReturn(1, o)
    \/ \E o \in {NoOutcome} \cup CacheOutcomes(UI) : HandlersReturn(1, o)
    \/ \E references \in StoreReferences : GcList(1, references)
    \/ GcUnlink(1)

SpecStore == InitStore /\ [][NextStore]_vars

\* ------------------------------------------------------------------ SpecDump:
\* write calls whose _dump runs in threads of the executor, step by step, and
\* reads, on a file store.

\* The empty byte string: what a file holds from open(path, 'wb') to the write
Truncated == ""

\* The store with data in the file of name
Put(st, name, data) == [n \in DOMAIN st \cup {name} |-> IF n = name THEN data ELSE st[n]]

\* files.write(data, content_type) up to the await of _dump, on the error or
\* the URL that Files.write comes to
WriteBegun(w, data, content_type, r) ==
    IF r.err # ""
    THEN /\ ev' = FileEvent("write", [NoFile EXCEPT !.err = r.err, !.data = data,
                                                    !.content_type = content_type,
                                                    !.before = store])
         /\ UNCHANGED <<store, gc, removed, dumps>>
    ELSE /\ dumps' = [dumps EXCEPT ![w] = [pc |-> "opening",
                                           name |-> SubSeq(r.url, 3, Len(r.url)),
                                           data |-> data, content_type |-> content_type,
                                           url |-> r.url, linked |-> FALSE,
                                           had |-> FilesRead(store, r.url).data = data]]
         /\ ev' = FileEvent("write_call", [NoFile EXCEPT !.url = r.url, !.data = data,
                                                         !.content_type = content_type,
                                                         !.before = store])
         /\ UNCHANGED <<store, gc, removed>>

WriteCall(w, data, content_type) ==
    /\ dumps[w].pc = "idle"
    /\ WriteBegun(w, data, content_type, FilesWrite(store, data, content_type))
    /\ UNCHANGED <<handlers, files, cache, now, calls, order, fresh>>

\* open(path, 'wb') in the thread of _dump: the file is created, or truncated
\* if there is one
DumpOpen(w) ==
    /\ dumps[w].pc = "opening"
    /\ Stored(Put(store, dumps[w].name, Truncated))
    /\ dumps' = [dumps EXCEPT ![w].pc = "writing", ![w].linked = TRUE]
    /\ ev' = FileEvent("opened", [NoFile EXCEPT !.url = dumps[w].url, !.before = store])
    /\ UNCHANGED <<handlers, files, cache, now, calls, order, fresh>>

\* f.write(data) and the close of the file: the data reach the file that was
\* opened, which the name may no longer be a link to; write returns the URL
DumpWrite(w) ==
    /\ dumps[w].pc = "writing"
    /\ Written(dumps[w].data, dumps[w].content_type,
               [err |-> "", url |-> dumps[w].url,
                store |-> IF dumps[w].linked THEN Put(store, dumps[w].name, dumps[w].data)
                          ELSE store])
    /\ dumps' = [dumps EXCEPT ![w] = IdleDump]
    /\ UNCHANGED <<handlers, files, cache, now, calls, order, fresh>>

\* What the callers write: two byte strings with their media types
DumpContents == { <<"blob", "application/octet-stream">>, <<"png_t", "image/png">> }

\* The URLs that the writes return
DumpUrls == { <<"file:", "/", "#b1", ".bin">>, <<"file:", "/", "#p2", ".png">> }

InitDump == InitWith({[handlers |-> DefaultHandlers, files |-> TRUE]}, {EmptyStore})

NextDump ==
    \/ \E w \in Calls, d \in DumpContents : WriteCall(w, d[1], d[2])
    \/ \E w \in Calls : DumpOpen(w)
    \/ \E w \in Calls : DumpWrite(w)
    \/ \E url \in DumpUrls : Read(url)

SpecDump == InitDump /\ [][NextDump]_vars

\* ------------------------------------------------------------------ SpecSweep:
\* a garbage collection whose _unlink runs in a thread of the executor, path by
\* path, while write calls and reads run as in SpecDump.

\* The collections in flight after call c has unlinked a path: c has the paths
\* of left before it, or is through; the others see the store change
Sweeping(c, left, through) ==
    [d \in Calls |-> IF d = c THEN IF through THEN IdleGc ELSE [gc[c] EXCEPT !.left = left]
                     ELSE IF gc[d].pc = "unlinking"
                     THEN [gc[d] EXCEPT !.disturbed = TRUE] ELSE gc[d]]

\* What a collection comes to, for the history
Collected(c, type, n, err, left) ==
    FileEvent(type, [NoFile EXCEPT !.n = n, !.err = err, !.references = gc[c].references,
                                   !.before = gc[c].before, !.disturbed = gc[c].disturbed,
                                   !.gone = gc[c].garbage \ left])

\* Path(path).unlink() for one path p of the garbage, the paths of left still
\* to come: FileNotFoundError if there is no such file; after the last path
\* garbage_collect returns len(garbage)
UnlinkedPath(c, p, left) ==
    IF p \notin DOMAIN store
    THEN /\ gc' = [gc EXCEPT ![c] = IdleGc]
         /\ ev' = Collected(c, "collect_raise", 0, "FileNotFoundError", left \cup {p})
         /\ UNCHANGED <<store, removed, dumps>>
    ELSE /\ store' = Unlink(store, {p})
         /\ removed' = removed \cup {p}
         /\ dumps' = [w \in Calls |-> IF dumps[w].name = p
                                       THEN [dumps[w] EXCEPT !.linked = FALSE] ELSE dumps[w]]
         /\ gc' = Sweeping(c, left, left = {})
         /\ ev' = IF left = {}
                  THEN Collected(c, "collected", Cardinality(gc[c].garbage), "", left)
                  ELSE Collected(c, "unlinked", 0, "", left)

\* The thread of _unlink takes the next path, in the order the set gives them
GcUnlinkPath(c) ==
    /\ gc[c].pc = "unlinking"
    /\ IF gc[c].left = {}
       THEN /\ gc' = [gc EXCEPT ![c] = IdleGc]
            /\ ev' = Collected(c, "collected", 0, "", {})
            /\ UNCHANGED <<store, removed, dumps>>
       ELSE \E p \in gc[c].left : UnlinkedPath(c, p, gc[c].left \ {p})
    /\ UNCHANGED <<handlers, files, cache, now, calls, order, fresh>>

NextSweep ==
    \/ \E w \in Calls, d \in DumpContents : WriteCall(w, d[1], d[2])
    \/ \E w \in Calls : DumpOpen(w)
    \/ \E w \in Calls : DumpWrite(w)
    \/ \E url \in DumpUrls : Read(url)
    \/ \E references \in SUBSET DumpUrls : GcList(1, references)
    \/ GcUnlinkPath(1)

SpecSweep == InitDump /\ [][NextSweep]_vars

\* ------------------------------------------------------------------ SpecGc:
\* two garbage collections at the same time on a store of three files.

\* A store that three writes have written to
FullStore ==
    FilesWrite(FilesWrite(BlobStore, "png_t", "image/png").store, "blob", "text/plain").store

\* The references the collections are given
GcUrls ==
    { <<"file:", "/", "#b1", ".bin">>, <<"file:", "/", "#p2", ".png">>,
      <<"file:", "/", "#b1", ".txt">> }

InitGc == InitWith({[handlers |-> DefaultHandlers, files |-> TRUE]}, {FullStore})

NextGc ==
    \/ \E c \in Calls, references \in SUBSET GcUrls : GcList(c, references)
    \/ \E c \in Calls : GcUnlinkPath(c)

SpecGc == InitGc /\ [][NextGc]_vars

\* ------------------------------------------------------------------ SpecJson:
\* a resource is turned into JSON and the JSON is parsed by the class of the
\* resource.

\* Resources, images and videos with non-blank url and content_type, with and
\* without description (the empty one too) and thumbnail
JsonResources ==
    { MkResource(cls, url, content_type, description, thumbnail) :
        cls \in {"Resource", "Image", "Video"},
        url \in {UA, UF},
        content_type \in {"image/png", "text/html"},
        description \in {None, Some(<<"Title">>), Some(<<>>)},
        thumbnail \in {None, Some(Thumbnail(UF)), Some(Thumbnail(<<>>))} }

DocEvent(type, d) == [NoEvent(type) EXCEPT !.doc = d]

\* r.json()
ToJson(r) ==
    /\ ev.type = "init"
    /\ ev' = DocEvent("json", [NoDoc EXCEPT !.of = Some(r), !.json = Some(ResourceJson(r))])
    /\ UNCHANGED <<dumps, handlers, files, store, cache, now, calls, order, fresh, gc, removed>>

\* type(r).parse(data), on what it gave
Parsed(p) == ev' = DocEvent("parsed", [ev.doc EXCEPT !.parsed = p.resource, !.err = p.err])

Parse ==
    /\ ev.type = "json"
    /\ Parsed(ResourceParse(ev.doc.of[1].cls, ev.doc.json[1]))
    /\ UNCHANGED <<dumps, handlers, files, store, cache, now, calls, order, fresh, gc, removed>>

InitJson == InitWith({[handlers |-> DefaultHandlers, files |-> FALSE]}, {EmptyStore})

NextJson ==
    \/ \E r \in JsonResources : ToJson(r)
    \/ Parse

SpecJson == InitJson /\ [][NextJson]_vars

\* ------------------------------------------------------------------ claims

\* The last step was the cache lookup of an analyze call for the URL of the last
\* successful analysis, less than CACHE_TTL after it and with no insertion since.
Repeated ==
    /\ ev.type \in {"hit", "miss"}
    /\ fresh # None
    /\ fresh[1].url = ev.url
    /\ now < fresh[1].at + CACHE_TTL

\* C1 as stated: analyze(url) repeated before CACHE_TTL has elapsed and with no
\* other cache insertion in between returns the same Resource without a fetch
\* and without invoking a handler, and the two calls issued exactly one fetch.
C1_OneFetchInTotal ==
    Repeated => /\ ev.type = "hit"
                /\ ev.resource = Some(fresh[1].resource)
                /\ ev.invoked = <<>>
                /\ ev.net = 0
                /\ fresh[1].net + ev.net = 1

\* C1 as amended: analyze(url) repeated before CACHE_TTL has elapsed and with no
\* other cache insertion in between returns the same Resource without a fetch
\* and without invoking a handler; the two calls issued the fetches of the first
\* call only, at most two (the resource and the image a handler fetched).
C1_RepeatedIsHit ==
    Repeated => /\ ev.type = "hit"
                /\ ev.resource = Some(fresh[1].resource)
                /\ ev.invoked = <<>>
                /\ ev.net = 0
                /\ fresh[1].net + ev.net <= 2

C1_Witness == Repeated /\ ev.type = "hit" /\ fresh[1].net = 1 /\ now > fresh[1].at

C1_WitnessTwoFetches == Repeated /\ ev.type = "hit" /\ fresh[1].net = 2

\* C2: a cache hit is on an entry inserted less than CACHE_TTL ago; a lookup of
\* an entry inserted CACHE_TTL ago or longer is a miss, the entry is gone and the
\* call goes on to fetch.
C2_NoStaleHit ==
    /\ ev.type = "hit" => ev.age >= 0 /\ ev.age < CACHE_TTL
    /\ (ev.type \in {"hit", "miss"} /\ ev.age >= CACHE_TTL) =>
          /\ ev.type = "miss"
          /\ ev.url \notin CacheKeys(cache)
          /\ \E c \in Calls : calls[c].pc = "fetching" /\ calls[c].url = ev.url

C2_Witness == ev.type = "miss" /\ ev.age = CACHE_TTL

\* C3: the cache never holds more than CACHE_SIZE entries, live or expired.
C3_CacheBounded == Len(cache) <= CACHE_SIZE

C3_Witness ==
    /\ ev.type = "return"
    /\ Len(cache) = CACHE_SIZE
    /\ \E i \in 1..Len(ev.setlog) : ev.setlog[i].evicted # {}
    /\ \E i \in 1..Len(cache) : cache[i].expires <= now

\* C4: inserting a key that is not cached into a cache of CACHE_SIZE entries
\* evicts exactly one entry, the one whose latest insertion is the earliest,
\* whatever hits there were in between.
C4_EvictsOldestInserted ==
    ev.type = "return" =>
        \A i \in 1..Len(ev.setlog) :
            (~ev.setlog[i].present /\ ev.setlog[i].size = CACHE_SIZE) =>
                /\ ev.setlog[i].oldest # None
                /\ ev.setlog[i].evicted = {ev.setlog[i].oldest[1]}

C4_Witness ==
    /\ ev.type = "return"
    /\ \E i \in 1..Len(ev.setlog) :
          /\ ~ev.setlog[i].present
          /\ ev.setlog[i].size = CACHE_SIZE
          /\ Cardinality(ev.setlog[i].evicted) = 1

\* C5: right after a successful analyze(url) on a cache miss that returned R,
\* the cache holds a live entry for url and for R.url, both with R, and a lookup
\* of R.url is a hit.
C5_BothKeysCached ==
    ev.type = "return" =>
        /\ {ev.url, ev.resource[1].url} \subseteq CacheKeys(cache)
        /\ \A k \in {ev.url, ev.resource[1].url} :
              /\ CacheEntry(cache, k).resource = ev.resource[1]
              /\ CacheEntry(cache, k).expires > now
        /\ _get_cache(cache, ev.resource[1].url, now).hit
        /\ _get_cache(cache, ev.resource[1].url, now).resource = ev.resource

C5_Witness ==
    /\ ev.type = "return"
    /\ ev.resource[1].url # ev.url
    /\ \E i \in 1..Len(ev.setlog) : ev.setlog[i].evicted # {}

\* The last step ended an analyze call that had fetched the resource.
Analyzed == ev.type \in {"return", "raise"} /\ ev.fetched # NoFetch

\* C6: on a cache miss the handlers are invoked in list order from the first,
\* each with the effective URL, the media type and the data fetched; every one
\* but the last invoked gave None; a resource a handler gave, directly or as an
\* awaitable, is what analyze returns and no later handler is invoked; else, if
\* none raised, all were invoked.
C6_FirstResultWins ==
    Analyzed =>
        /\ Len(ev.invoked) <= Len(handlers)
        /\ \A j \in 1..Len(ev.invoked) :
              /\ ev.invoked[j].i = j
              /\ ev.invoked[j].url = ev.fetched.eff
              /\ ev.invoked[j].content_type = ev.fetched.content_type
              /\ ev.invoked[j].data = ev.fetched.data
              /\ j < Len(ev.invoked) => ev.invoked[j].result = None
              /\ ev.invoked[j].result # None => ev.type = "return" /\ ev.resource = ev.invoked[j].result
        /\ (ev.type = "return" /\ \A j \in 1..Len(ev.invoked) : ev.invoked[j].result = None) =>
              Len(ev.invoked) = Len(handlers)

C6_Witness ==
    /\ Analyzed
    /\ ev.type = "return"
    /\ Len(ev.invoked) = 2
    /\ Len(handlers) = 3
    /\ handlers[2] = "async_res"
    /\ ev.resource = ev.invoked[2].result
    /\ ev.resource # None

C6_WitnessSync ==
    /\ Analyzed
    /\ Len(ev.invoked) = 3
    /\ Len(handlers) = 4
    /\ handlers[3] = "sync_res"
    /\ ev.resource = ev.invoked[3].result
    /\ ev.resource # None

\* C7: when every handler gave None for what was fetched, or there is no
\* handler, analyze returns a plain Resource with the effective URL, the media
\* type fetched, and neither description nor thumbnail.
C7_PlainResource ==
    (Analyzed /\ ev.type = "return" /\ \A j \in 1..Len(ev.invoked) : ev.invoked[j].result = None) =>
        ev.resource = Some([cls |-> "Resource", url |-> ev.fetched.eff,
                            content_type |-> ev.fetched.content_type,
                            description |-> None, thumbnail |-> None])

C7_Witness ==
    /\ Analyzed
    /\ ev.type = "return"
    /\ Len(ev.invoked) = 2
    /\ \A j \in 1..Len(ev.invoked) : ev.invoked[j].result = None
    /\ ev.url = UR
    /\ ev.resource[1].url = UA

C7_WitnessNoHandlers == Analyzed /\ ev.type = "return" /\ handlers = <<>>

\* C8: when the fetch primitive fails with an HTTP error status the call raises
\* NoResourceError for 404 and 410, ForbiddenResourceError for 401, 402, 403,
\* 405 and 451 and CommunicationError for any other; when it fails to connect
\* the call raises CommunicationError. This holds for the fetch of the resource
\* and for the fetch of the image of a page.
C8_StatusErrors ==
    /\ (ev.prim = "HTTPClientError" /\ ev.code \in {404, 410}) =>
          ev.type = "raise" /\ ev.err = "NoResourceError"
    /\ (ev.prim = "HTTPClientError" /\ ev.code \in {401, 402, 403, 405, 451}) =>
          ev.type = "raise" /\ ev.err = "ForbiddenResourceError"
    /\ (ev.prim = "HTTPClientError" /\ ev.code \notin {404, 410, 401, 402, 403, 405, 451}) =>
          ev.type = "raise" /\ ev.err = "CommunicationError"
    /\ ev.prim = "CommunicationError" => ev.type = "raise" /\ ev.err = "CommunicationError"
    /\ \A code \in StatusCodes :
          AnalyzerFetch(store, files, UA, Outcome("HTTPClientError", code, "", None, <<>>)).err
              = CASE code \in {404, 410} -> "NoResourceError"
                  [] code \in {401, 402, 403, 405, 451} -> "ForbiddenResourceError"
                  [] OTHER -> "CommunicationError"

C8_Witness == ev.type = "raise" /\ ev.prim = "HTTPClientError" /\ ev.code = 410 /\ ev.fetched = NoFetch

C8_WitnessNested ==
    ev.type = "raise" /\ ev.prim = "HTTPClientError" /\ ev.code = 405 /\ ev.fetched # NoFetch

C8_WitnessConnection == ev.type = "raise" /\ ev.prim = "CommunicationError"

\* The errors of the taxonomy
Taxonomy ==
    {"ValueError", "CommunicationError", "NoResourceError", "ForbiddenResourceError",
     "BrokenResourceError"}

\* C9: an analyze call that ends returns a Resource or raises one error of the
\* taxonomy (validation, communication, no resource, forbidden resource, broken
\* resource), whatever the fetch gave, with or without a Content-Type header.
C9_OnlyTaxonomyErrors ==
    /\ ev.type = "raise" => ev.err \in Taxonomy /\ ev.resource = None
    /\ ev.type = "return" => ev.err = "" /\ ev.resource # None

\* The URL Files.write returns for the file of this name
FileUrl(name) == <<"file:", "/">> \o name

\* C10: a garbage collection that no write ran into removes exactly the files
\* that no URL of references names, leaves the others with their content, and
\* returns the number of files it removed; with no references it removes every
\* file; references that name no file change nothing. Reading a removed file
\* raises LookupError.
C10_GarbageCollect ==
    /\ (ev.type = "collected" /\ ~ev.file.disturbed) =>
          /\ DOMAIN store \subseteq DOMAIN ev.file.before
          /\ \A n \in DOMAIN ev.file.before :
                /\ n \in DOMAIN store <=> FileUrl(n) \in ev.file.references
                /\ n \in DOMAIN store => store[n] = ev.file.before[n]
                /\ n \notin DOMAIN store => FilesRead(store, FileUrl(n)).err = "LookupError"
          /\ ev.file.n = Cardinality(DOMAIN ev.file.before \ DOMAIN store)
          /\ ev.file.references = {} => store = EmptyStore
    /\ (ev.type = "read" /\ LStripSlash(UrlPath(ev.file.url)) \in removed) =>
          ev.file.err = "LookupError"

C10_Witness ==
    /\ ev.type = "collected"
    /\ ~ev.file.disturbed
    /\ ev.file.n = 2
    /\ Cardinality(DOMAIN store) = 1
    /\ FileUrl(<<"#zz", ".bin">>) \in ev.file.references

C10_WitnessRead ==
    /\ ev.type = "read"
    /\ LStripSlash(UrlPath(ev.file.url)) \in removed
    /\ ev.file.err = "LookupError"

C10_WitnessAll ==
    /\ ev.type = "collected"
    /\ ev.file.references = {}
    /\ ev.file.n = 3

\* C11: a write of the same data and media type right after a write that
\* succeeded succeeds, returns the URL the first returned and leaves the stored
\* files and their contents as the first left them.
C11_WriteIdempotent ==
    (ev.type = "write" /\ ev.file.again) =>
        /\ ev.file.err = ""
        /\ ev.file.url = ev.file.prior
        /\ store = ev.file.before

C11_Witness ==
    /\ ev.type = "write"
    /\ ev.file.again
    /\ ev.file.url = ev.file.prior
    /\ Cardinality(DOMAIN store) = 2

C12_WitnessUpperCase ==
    /\ ev.type = "read"
    /\ ev.file.again
    /\ ev.file.wtype = "IMAGE/PNG"
    /\ ev.file.content_type = "image/png"

\* C13: the same bytes are stored under the same file name whatever the
\* content type: a write that succeeds right after a write of the same data
\* that succeeded returns the same URL, and no two stored files hold the same
\* data.
C13_OneCopyPerContent ==
    /\ ( /\ ev.type = "write"
         /\ ev.file.err = ""
         /\ ev.file.prior # <<>>
         /\ ev.file.wdata = ev.file.data ) => ev.file.url = ev.file.prior
    /\ \A n1, n2 \in DOMAIN store : store[n1] = store[n2] => n1 = n2

\* C14: the thumbnail of a Resource that analyze returns, fresh or from the
\* cache, is the URL of a file that is in the file store when it is returned.
C14_ThumbnailIsStored ==
    ( /\ ev.type \in {"hit", "return"}
      /\ ev.resource # None
      /\ ev.resource[1].thumbnail # None ) =>
        LStripSlash(UrlPath(ev.resource[1].thumbnail[1].url)) \in DOMAIN store

\* C15: the thumbnail of a Resource that analyze returns has a URL other than
\* the URL of the Resource, also when the URL analyzed is the file URL of an
\* image in the file store.
C15_ThumbnailIsNotTheResource ==
    ( /\ ev.type = "return"
      /\ ev.resource[1].thumbnail # None ) =>
        ev.resource[1].thumbnail[1].url # ev.resource[1].url

\* C16: no Resource with a blank url or a blank content_type exists: none is
\* returned by analyze and none is in the cache.
C16_NoBlankResource ==
    /\ ev.type = "return" =>
          /\ str_or_none(ev.resource[1].url) # None
          /\ str_or_none(<<ev.resource[1].content_type>>) # None
    /\ \A i \in 1..Len(cache) :
          /\ str_or_none(cache[i].resource.url) # None
          /\ str_or_none(<<cache[i].resource.content_type>>) # None

\* C17: parsing the JSON of a Resource, Image or Video with the parse function
\* of its class succeeds and gives a value equal to it: the same class, url,
\* content_type, description and thumbnail.
C17_JsonRoundTrip ==
    ev.type = "parsed" =>
        /\ ev.doc.err = ""
        /\ ev.doc.parsed = ev.doc.of

C17_Witness ==
    /\ ev.type = "parsed"
    /\ ev.doc.parsed # None
    /\ ev.doc.parsed[1].cls = "Image"
    /\ ev.doc.parsed[1].thumbnail = Some(Thumbnail(<<>>))
    /\ ev.doc.parsed[1].description = Some(<<>>)

\* C18: with the default handlers, an analyze call that fetched a resource of
\* an image media type returns, if it returns, an Image with a thumbnail when
\* there is a file store and without one when there is none; without a file
\* store it always returns and nothing is written to the directory; with one,
\* all it may raise is BrokenResourceError.
C18_ImageOfImageType ==
    ( /\ Analyzed
      /\ handlers = DefaultHandlers
      /\ ev.fetched.content_type \in
            {"image/bmp", "image/gif", "image/jpeg", "image/png", "image/svg+xml"} ) =>
        /\ ev.type = "return" =>
              /\ ev.resource[1].cls = "Image"
              /\ ev.resource[1].url = ev.fetched.eff
              /\ ev.resource[1].content_type = ev.fetched.content_type
              /\ files <=> ev.resource[1].thumbnail # None
        /\ ev.type = "raise" => files /\ ev.err = "BrokenResourceError"
        /\ ~files => ev.type = "return" /\ store \in {EmptyStore, BlobStore, SvgStore, PageStore}

C18_Witness ==
    /\ Analyzed
    /\ handlers = DefaultHandlers
    /\ files
    /\ ev.type = "return"
    /\ ev.fetched.content_type = "image/jpeg"
    /\ ev.resource[1].cls = "Image"
    /\ ev.resource[1].thumbnail = Some(Thumbnail(<<"file:", "/", "#j2", ".jpg">>))

C18_WitnessNoFiles ==
    /\ Analyzed
    /\ handlers = DefaultHandlers
    /\ ~files
    /\ ev.type = "return"
    /\ ev.fetched.content_type = "image/bmp"
    /\ ev.resource[1].cls = "Image"
    /\ ev.resource[1].thumbnail = None

\* Image data that PIL does not decode as the format of the media type, or
\* reports as a decompression bomb
Undecodable(data, content_type) ==
    /\ content_type \in {"image/bmp", "image/gif", "image/jpeg", "image/png"}
    /\ data \notin (CASE content_type = "image/png" -> {"png", "png_t"}
                      [] content_type = "image/jpeg" -> {"jpg", "jpg_t"}
                      [] OTHER -> {})

\* A media type that thumbnail does not take
NotAllowed(content_type) ==
    content_type \notin {"image/bmp", "image/gif", "image/jpeg", "image/png", "image/svg+xml"}

\* C19 as stated: thumbnail(data, content_type) raises BrokenResourceError and
\* leaves the file store as it was when the media type is not allowed or the
\* raster data does not decode or is a decompression bomb; an analyze call that
\* fetched such an image raises BrokenResourceError and caches nothing.
C19_BrokenImage ==
    /\ ( /\ ev.type = "thumbnail"
         /\ NotAllowed(ev.file.content_type)
               \/ Undecodable(ev.file.data, ev.file.content_type) ) =>
          /\ ev.file.err = "BrokenResourceError"
          /\ store = ev.file.before
    /\ ( /\ Analyzed
         /\ handlers = DefaultHandlers
         /\ Undecodable(ev.fetched.data, ev.fetched.content_type) ) =>
          /\ ev.type = "raise"
          /\ ev.err = "BrokenResourceError"
          /\ cache = <<>>

\* C19 as amended: with a file store, thumbnail(data, content_type) raises
\* BrokenResourceError and leaves the file store as it was when the media type
\* is not allowed or the raster data does not decode or is a decompression
\* bomb, and an analyze call with the default handlers that fetched such a
\* raster image raises BrokenResourceError and caches nothing. Without a file
\* store thumbnail raises ValueError and analyze returns an Image that has no
\* thumbnail.
C19_BrokenImageWithFiles ==
    /\ ( /\ ev.type = "thumbnail"
         /\ files
         /\ NotAllowed(ev.file.content_type)
               \/ Undecodable(ev.file.data, ev.file.content_type) ) =>
          /\ ev.file.err = "BrokenResourceError"
          /\ ev.file.url = <<>>
          /\ store = ev.file.before
    /\ (ev.type = "thumbnail" /\ ~files) =>
          /\ ev.file.err = "builtins.ValueError"
          /\ store = ev.file.before
    /\ ( /\ Analyzed
         /\ handlers = DefaultHandlers
         /\ Undecodable(ev.fetched.data, ev.fetched.content_type) ) =>
          IF files
          THEN /\ ev.type = "raise"
               /\ ev.err = "BrokenResourceError"
               /\ cache = <<>>
               /\ store \in {EmptyStore, BlobStore, SvgStore, PageStore}
          ELSE /\ ev.type = "return"
               /\ ev.resource[1].cls = "Image"
               /\ ev.resource[1].thumbnail = None

C19_Witness ==
    /\ ev.type = "thumbnail"
    /\ files
    /\ ev.file.data = "bomb"
    /\ ev.file.content_type = "image/gif"
    /\ ev.file.err = "BrokenResourceError"

C19_WitnessAnalyze ==
    /\ Analyzed
    /\ handlers = DefaultHandlers
    /\ files
    /\ ev.fetched.data = "badpng"
    /\ ev.err = "BrokenResourceError"

\* C20: with a file store, thumbnail(data, 'image/svg+xml') succeeds for any
\* data and a read of the URL it returns gives the data passed in and the
\* content type image/svg+xml.
C20_SvgStoredUnmodified ==
    ( /\ ev.type = "thumbnail"
      /\ files
      /\ ev.file.content_type = "image/svg+xml" ) =>
        /\ ev.file.err = ""
        /\ FilesRead(store, ev.file.url) = FileResult("", ev.file.data, "image/svg+xml")

C20_Witness ==
    /\ ev.type = "thumbnail"
    /\ files
    /\ ev.file.content_type = "image/svg+xml"
    /\ ev.file.data = "svg"
    /\ ev.file.before = EmptyStore
    /\ ev.file.url = <<"file:", "/", "#s1", ".svg">>
    /\ store[<<"#s1", ".svg">>] = "svg"

\* C21: with a file store, the fetch that analyze makes of a file: URL uses no
\* network: it gives the stored bytes, the media type of the extension and the
\* URL asked for; when the name has a "/", an unknown extension or no file
\* in the store, analyze raises NoResourceError.
FileAnalysis ==
    files /\ ev.type \in {"fetched", "return", "raise"} /\ UrlScheme(ev.url) = "file:"

Supplies(st, name) ==
    "/" \notin Range(name) /\ Len(name) > 0 /\ TypesMap(name[Len(name)]) # "" /\ name \in DOMAIN st

C21_WitnessAbsent == FileAnalysis /\ ev.url = US /\ ev.err = "NoResourceError"

C21_WitnessExtension == FileAnalysis /\ ev.url = UFX /\ ev.err = "NoResourceError"

C21_WitnessDirectory == FileAnalysis /\ ev.url = UFD /\ ev.err = "NoResourceError"

\* C22: without a file store, analyze of a file: URL raises the validation
\* error (bad URL scheme): it reads no file, whatever the directory holds, gives
\* no Resource and caches nothing.
C22_FileUrlWithoutFiles ==
    (~files /\ ev.type \in {"fetched", "return", "raise"} /\ UrlScheme(ev.url) = "file:") =>
        /\ ev.type = "raise"
        /\ ev.err = "ValueError"
        /\ ev.fetched = NoFetch
        /\ ev.invoked = <<>>
        /\ ev.resource = None
        /\ cache = <<>>
        /\ fresh = None

C22_Witness ==
    /\ ~files
    /\ ev.type = "raise"
    /\ ev.url = UF
    /\ store = BlobStore
    /\ ev.err = "ValueError"

\* C23: Files.read raises ValueError for a URL with a scheme other than file,
\* LookupError for a name with a "/" or an extension that is not known, and
\* LookupError for a name with no file in the store; what it returns is the
\* content of a file of the store directory.
C23_ReadRejects ==
    ev.type = "read" =>
        /\ IF UrlScheme(ev.file.url) \notin {"", "file:"} THEN ev.file.err = "builtins.ValueError"
           ELSE IF "/" \in Range(LStripSlash(UrlPath(ev.file.url))) THEN ev.file.err = "LookupError"
           ELSE IF TypesMap(ev.file.url[Len(ev.file.url)]) = "" THEN ev.file.err = "LookupError"
           ELSE IF LStripSlash(UrlPath(ev.file.url)) \notin DOMAIN store
           THEN ev.file.err = "LookupError"
           ELSE ev.file.err = ""
        /\ ev.file.err = "" =>
              /\ LStripSlash(UrlPath(ev.file.url)) \in DOMAIN store
              /\ ev.file.data = store[LStripSlash(UrlPath(ev.file.url))]
              /\ ev.file.data \notin {Outside[n] : n \in DOMAIN Outside}
        /\ ev.file.err # "" => ev.file.data = ""

C23_Witness ==
    /\ ev.type = "read"
    /\ ev.file.url = <<"file:", "/", "..", "/", "secret", ".txt">>
    /\ ev.file.err = "LookupError"

C23_WitnessScheme == ev.type = "read" /\ ev.file.url = UA /\ ev.file.err = "builtins.ValueError"

C23_WitnessExtension == ev.type = "read" /\ ev.file.url = UFX /\ ev.file.err = "LookupError"

C23_WitnessAbsent ==
    /\ ev.type = "read"
    /\ ev.file.url = <<"file:", "/", "#b1", ".bin">>
    /\ ev.file.err = "LookupError"

C23_WitnessBareName ==
    ev.type = "read" /\ ev.file.url = <<"#b1", ".bin">> /\ ev.file.err = "" /\ ev.file.data = "blob"

\* C24: Files.write with a media type that has no known extension raises
\* ValueError, returns no URL and leaves every file of the store as it was.
C24_WriteUnknownType ==
    (ev.type = "write" /\ ev.file.content_type = "application/x-unknown") =>
        /\ ev.file.err = "builtins.ValueError"
        /\ ev.file.url = <<>>
        /\ store = ev.file.before

C24_Witness ==
    /\ ev.type = "write"
    /\ ev.file.content_type = "application/x-unknown"
    /\ ev.file.err = "builtins.ValueError"
    /\ ev.file.before # EmptyStore
    /\ <<"#b1", ".bin">> \in DOMAIN store

\* An analyze call with the default handlers that fetched a page with an image URL
PageWithImage ==
    /\ Analyzed
    /\ handlers = DefaultHandlers
    /\ ev.fetched.content_type \in {"text/html", "application/xhtml+xml"}
    /\ ev.fetched.data \in {"page", "page3", "page4"}

\* C25 as stated: with a file store, an analyze call that fetched a page with an
\* image URL returns a Resource with a thumbnail or raises BrokenResourceError.
C25_AnyFailureIsBroken ==
    (PageWithImage /\ files) =>
        \/ ev.type = "return" /\ ev.resource[1].thumbnail # None
        \/ ev.type = "raise" /\ ev.err = "BrokenResourceError"

\* C25 as amended: with a file store, the call raises BrokenResourceError when
\* the fetch of the image is refused for its URL scheme, or gives data that does
\* not decode or a media type that thumbnail does not take; when the fetch of
\* the image fails otherwise (no file, HTTP error status, no connection, no
\* Content-Type header) the call raises the error of the fetch; else it
\* returns a Resource with a thumbnail. Without a file store the image is not
\* fetched and the call returns a Resource without thumbnail.
C25_BrokenImageOfPage ==
    /\ (PageWithImage /\ files) =>
          CASE ev.prim = "builtins.ValueError" ->
                  ev.type = "raise" /\ ev.err = "BrokenResourceError"
            [] ev.prim = "ok" /\ ev.header # None ->
                  IF \/ NotAllowed(MediaType(ev.header[1]))
                     \/ Undecodable(ev.body, MediaType(ev.header[1]))
                  THEN ev.type = "raise" /\ ev.err = "BrokenResourceError"
                  ELSE ev.type = "return" /\ ev.resource[1].thumbnail # None
            [] ev.prim = "ok" /\ ev.header = None -> ev.type = "raise" /\ ev.err = "KeyError"
            [] ev.prim = "HTTPClientError" ->
                  /\ ev.type = "raise"
                  /\ ev.err = (CASE ev.code \in {404, 410} -> "NoResourceError"
                                 [] ev.code \in {401, 402, 403, 405, 451} -> "ForbiddenResourceError"
                                 [] OTHER -> "CommunicationError")
            [] ev.prim = "CommunicationError" ->
                  ev.type = "raise" /\ ev.err = "CommunicationError"
            [] ev.prim = "" -> ev.type = "raise" /\ ev.err = "NoResourceError"
    /\ (PageWithImage /\ ~files) =>
          /\ ev.type = "return"
          /\ ev.resource[1].thumbnail = None
          /\ ev.net = 1

C25_Witness ==
    /\ PageWithImage
    /\ files
    /\ ev.fetched.data = "page3"
    /\ ev.prim = "builtins.ValueError"
    /\ ev.err = "BrokenResourceError"

C25_WitnessCorrupt ==
    PageWithImage /\ files /\ ev.prim = "ok" /\ ev.body = "badpng" /\ ev.err = "BrokenResourceError"

C25_WitnessMissing ==
    PageWithImage /\ files /\ ev.prim = "HTTPClientError" /\ ev.code = 404
        /\ ev.err = "NoResourceError"

C25_WitnessItself ==
    PageWithImage /\ files /\ ev.fetched.data = "page4" /\ ev.body = "page4"
        /\ ev.err = "BrokenResourceError"

\* The error type Analyzer.fetch gives the failure of the fetch primitive that
\* the last step saw, "" if the primitive gave a response with Content-Type
Classified ==
    CASE ev.prim = "builtins.ValueError" -> "ValueError"
      [] ev.prim = "HTTPClientError" ->
            (CASE ev.code \in {404, 410} -> "NoResourceError"
               [] ev.code \in {401, 402, 403, 405, 451} -> "ForbiddenResourceError"
               [] OTHER -> "CommunicationError")
      [] ev.prim = "CommunicationError" -> "CommunicationError"
      [] ev.prim = "ok" /\ ev.header = None -> "KeyError"
      [] OTHER -> ""

\* The fetch of the call itself raised
FetchRaised == ev.type \in {"raise", "thumbnail_url"} /\ ev.fetched = NoFetch /\ Classified # ""

\* The fetch that a handler of the call asked for raised
NestedRaised ==
    /\ Analyzed
    /\ NestedIn(ev.fetched, ev.invoked, ev.api) # None
    /\ Classified # ""

\* The last handler the call invoked
LastHandler == handlers[ev.invoked[Len(ev.invoked)].i]

\* C26 as stated: the error that a fetch raises, for the resource of an analyze
\* call, for the URL given to thumbnail or for the image a handler asks a
\* thumbnail of, is the error that the call raises.
C26_FetchErrorsUnchanged ==
    /\ FetchRaised => ev.err = Classified
    /\ NestedRaised => ev.type = "raise" /\ ev.err = Classified

\* C26 as amended: the error that the fetch of the resource or of the URL given
\* to thumbnail raises is the error that the call raises; of the errors of the
\* fetch a handler asks for, handle_webpage raises BrokenResourceError for the
\* validation error, handle_youtube raises CommunicationError for the
\* validation error and for KeyError, and every other error is raised as it is.
C26_FetchErrorsBut ==
    /\ FetchRaised => ev.err = Classified
    /\ NestedRaised =>
          /\ ev.type = "raise"
          /\ ev.err =
                (CASE LastHandler = "handle_webpage" /\ Classified = "ValueError" ->
                          "BrokenResourceError"
                   [] LastHandler = "handle_youtube" /\ Classified \in {"ValueError", "KeyError"} ->
                          "CommunicationError"
                   [] OTHER -> Classified)

C26_Witness ==
    NestedRaised /\ LastHandler = "handle_webpage" /\ Classified = "NoResourceError"
        /\ ev.err = "NoResourceError"

C26_WitnessFetch == FetchRaised /\ ev.type = "raise" /\ ev.err = "ForbiddenResourceError"

C26_WitnessThumbnail == FetchRaised /\ ev.type = "thumbnail_url" /\ ev.err = "NoResourceError"

C26_WitnessPage ==
    NestedRaised /\ LastHandler = "handle_webpage" /\ Classified = "ValueError"
        /\ ev.err = "BrokenResourceError"

C26_WitnessVideo ==
    NestedRaised /\ LastHandler = "handle_youtube" /\ Classified = "ValueError"
        /\ ev.err = "CommunicationError"

C26_WitnessVideoHeader ==
    NestedRaised /\ LastHandler = "handle_youtube" /\ Classified = "KeyError"
        /\ ev.err = "CommunicationError"

C26_WitnessVideoMissing ==
    NestedRaised /\ LastHandler = "handle_youtube" /\ ev.code = 404 /\ ev.err = "NoResourceError"

\* The network operations of the analyze call of the last step: the fetch of
\* the resource, the API call of handle_youtube, the fetch a handler asked for
NetworkOperations ==
    1 + (IF VideoIn(ev.fetched, ev.invoked) THEN 1 ELSE 0)
      + (IF ev.fetched # NoFetch /\ NestedIn(ev.fetched, ev.invoked, ev.api) # None THEN 1 ELSE 0)

\* The call of the last step cached its resource under the URL asked for and
\* the URL of the resource, and nothing else
NoReentry ==
    /\ ev.type = "return" =>
          /\ CacheKeys(cache) = {ev.url, ev.resource[1].url}
          /\ Len(ev.setlog) = 2
    /\ ev.type = "raise" => cache = <<>>

\* How many awaits an analyze call has before it at most
Awaits(pc) == CASE pc = "fetching" -> 2 [] pc = "handling" -> 1 [] OTHER -> 0

\* An analyze call that awaits goes on whatever the awaited operation comes to
CanProceed ==
    /\ calls[1].pc = "fetching" => PrimOutcomes(calls[1].url) # {}
    /\ calls[1].pc = "handling" => HandlerOutcomes(calls[1].fetched) # {}

\* Every step of an analyze call that has begun brings it closer to its end
Proceeds == calls[1].pc # "idle" => Awaits(calls[1].pc') < Awaits(calls[1].pc)

C27_WitnessVideo ==
    ev.type = "return" /\ ev.url = UY /\ ev.resource[1].cls = "Video" /\ ev.net = 3

C27_WitnessNoVideo ==
    ev.type = "raise" /\ ev.url = UY /\ VideoImage(ev.api) = None /\ ev.api.raised = ""
        /\ ev.net = 3

\* The text of the first element of a page with this tag and key, None if there is none
RECURSIVE FirstElement(_, _, _)
FirstElement(elements, tag, key) ==
    IF Len(elements) = 0 THEN None
    ELSE IF elements[1].tag = tag /\ elements[1].key = key THEN Some(elements[1].text)
    ELSE FirstElement(Tail(elements), tag, key)

\* No two elements of the page have the same tag and key
Unambiguous(elements) ==
    \A i, j \in 1..Len(elements) :
        (elements[i].tag = elements[j].tag /\ elements[i].key = elements[j].key) => i = j

\* A text without content: empty or white space only
Blank(text) == \A i \in 1..Len(text) : text[i] \in {" ", ""}

\* The first of the optional texts that has content, None if none has
FirstWithContent(texts) ==
    IF \E i \in 1..Len(texts) : texts[i] # None /\ ~Blank(texts[i][1])
    THEN texts[CHOOSE i \in 1..Len(texts) :
                  /\ texts[i] # None /\ ~Blank(texts[i][1])
                  /\ \A j \in 1..(i - 1) : texts[j] = None \/ Blank(texts[j][1])]
    ELSE None

\* The Open Graph title of the page if it has content, else the text of its
\* <title> if that has content, else None
TitleOfPage(elements) ==
    FirstWithContent(<< FirstElement(elements, "meta", <<"og:title">>),
                        FirstElement(elements, "title", <<"title">>) >>)

\* The image URL of the page: og:image, else og:image:url, else og:image:secure_url
ImageOfPage(elements) ==
    FirstWithContent(<< FirstElement(elements, "meta", <<"og:image">>),
                        FirstElement(elements, "meta", <<"og:image:url">>),
                        FirstElement(elements, "meta", <<"og:image:secure_url">>) >>)

\* The thumbnail that the image at this URL, resolved against the page URL
\* http://h/b, gives: of the PNG at http://h/img or of the JPEG at https://h/hq.jpg
ThumbnailOfImage(image_url) ==
    IF image_url = <<"img">> THEN Thumbnail(<<"file:", "/", "#p2", ".png">>)
    ELSE Thumbnail(<<"file:", "/", "#j2", ".jpg">>)

\* What the web page handler returns but for the description
PageResultBut(elements) ==
    /\ ev.err = "" =>
          /\ ev.resource # None
          /\ ev.resource[1].cls = "Resource"
          /\ ev.resource[1].url = UB
          /\ ev.resource[1].content_type = ev.page.content_type
          /\ ev.resource[1].thumbnail # None <=> (ImageOfPage(elements) # None /\ files)
          /\ ev.resource[1].thumbnail # None =>
                ev.resource[1].thumbnail = Some(ThumbnailOfImage(ImageOfPage(elements)[1]))
    /\ ev.err # "" => ImageOfPage(elements) # None /\ files

PageHandledAsHtml ==
    /\ ev.type = "handled"
    /\ ev.page.content_type \in {"text/html", "application/xhtml+xml"}
    /\ Unambiguous(ev.page.elements)

\* C28: for a page served as text/html or application/xhtml+xml in which no
\* element occurs twice, the web page handler, if it returns, returns a Resource
\* (no Image) of the page URL whose description is the Open Graph title if that
\* has content, else the <title> text if that has content, else null, and whose
\* thumbnail is set exactly when the page has an image URL (og:image, else
\* og:image:url, else og:image:secure_url) and there is a file store, and is
\* the thumbnail of the image at that URL resolved against the page URL.
C28_WebpageResult ==
    PageHandledAsHtml =>
        /\ PageResultBut(ev.page.elements)
        /\ ev.err = "" => ev.resource[1].description = TitleOfPage(ev.page.elements)

\* The rest of C28 holds: all but the description, and the description too for
\* pages without a blank Open Graph title and without a title given as meta data
C28_WebpageResultButBlankTitle ==
    PageHandledAsHtml =>
        /\ PageResultBut(ev.page.elements)
        /\ ( /\ ev.err = ""
             /\ FirstElement(ev.page.elements, "meta", <<"og:title">>) # Some(<<" ">>)
             /\ FirstElement(ev.page.elements, "meta", <<"title">>) = None ) =>
                ev.resource[1].description = TitleOfPage(ev.page.elements)

C28_WitnessBlankTitle ==
    /\ PageHandledAsHtml
    /\ ev.page.elements = << MetaElement("og:title", <<" ">>), TitleElement(<<"A">>) >>
    /\ ev.err = ""
    /\ ev.resource[1].description = None

C28_WitnessThumbnail ==
    /\ PageHandledAsHtml
    /\ files
    /\ ev.page.elements = << MetaElement("og:image", <<>>),
                             MetaElement("og:image:url", <<"https:", "//h", "/", "hq.jpg">>) >>
    /\ ev.err = ""
    /\ ev.resource[1].thumbnail = Some(Thumbnail(<<"file:", "/", "#j2", ".jpg">>))

\* The keys of the <meta> elements of a page
MetaKeys(elements) == {elements[i].key : i \in {j \in 1..Len(elements) : elements[j].tag = "meta"}}

\* C29: the title that the parser reads from a page is the text of its first
\* <title> element, and the value it reads for the key of a <meta> element is
\* the content of the first <meta> element with that key (the title is left
\* aside for pages that give a title as meta data too).
C29_FirstMatchOnly ==
    ev.type = "scanned" =>
        /\ \A key \in MetaKeys(ev.page.elements) \ {<<"title">>} :
              DictGet(ev.page.meta, key) = FirstElement(ev.page.elements, "meta", key)
        /\ <<"title">> \notin MetaKeys(ev.page.elements) =>
              DictGet(ev.page.meta, <<"title">>)
                  = FirstElement(ev.page.elements, "title", <<"title">>)

\* The same for pages in which no element occurs twice
C29_OnlyMatch ==
    (ev.type = "scanned" /\ Unambiguous(ev.page.elements)) =>
        /\ \A key \in MetaKeys(ev.page.elements) \ {<<"title">>} :
              DictGet(ev.page.meta, key) = FirstElement(ev.page.elements, "meta", key)
        /\ <<"title">> \notin MetaKeys(ev.page.elements) =>
              DictGet(ev.page.meta, <<"title">>)
                  = FirstElement(ev.page.elements, "title", <<"title">>)

C29_WitnessLastTitle ==
    /\ ev.type = "scanned"
    /\ ev.page.elements = << TitleElement(<<"A">>), TitleElement(<<"B">>) >>
    /\ DictGet(ev.page.meta, <<"title">>) = Some(<<"B">>)

C29_WitnessLastMeta ==
    /\ ev.type = "scanned"
    /\ ev.page.elements = << MetaElement("og:image", <<"img">>), MetaElement("og:image", <<>>) >>
    /\ DictGet(ev.page.meta, <<"og:image">>) = Some(<<>>)

\* The entry of key k is gone or another one after the step
EntryChanged(k) ==
    /\ k \in CacheKeys(cache)
    /\ k \notin CacheKeys(cache') \/ CacheEntry(cache', k) # CacheEntry(cache, k)

\* The step is a lookup of k that found its entry expired and deleted it
ExpiredOnLookup(k) ==
    /\ ev'.type = "miss"
    /\ ev'.url = k
    /\ CacheEntry(cache, k).expires <= now
    /\ k \notin CacheKeys(cache')

\* The step inserted a key that was not cached into a full cache, and k went as
\* the entry inserted the longest ago
EvictedAsOldest(k) ==
    /\ ev'.type = "return"
    /\ \E i \in 1..Len(ev'.setlog) :
          /\ ~ev'.setlog[i].present
          /\ ev'.setlog[i].size = CACHE_SIZE
          /\ ev'.setlog[i].oldest = Some(k)
          /\ ev'.setlog[i].evicted = {k}

\* The step is the end of an analyze call that inserted its resource under k
InsertedAgain(k) ==
    /\ ev'.type = "return"
    /\ k \in {ev'.url, ev'.resource[1].url}
    /\ k \in CacheKeys(cache')
    /\ CacheEntry(cache', k).resource = ev'.resource[1]
    /\ CacheEntry(cache', k).at = now

\* C30 as stated: an entry of the cache goes or changes only in a lookup of its
\* key that finds it expired, or as the oldest inserted entry of a full cache.
C30_OnlyExpiryOrEviction ==
    [][\A k \in CacheUrls : EntryChanged(k) => ExpiredOnLookup(k) \/ EvictedAsOldest(k)]_vars

\* C30 as amended: an entry of the cache goes or changes only in a lookup of
\* its key that finds it expired, as the oldest inserted entry of a full cache,
\* or when an analyze call ends that inserts its resource under the same key.
C30_OnlyExpiryEvictionOrSameKey ==
    [][\A k \in CacheUrls :
          EntryChanged(k) => ExpiredOnLookup(k) \/ EvictedAsOldest(k) \/ InsertedAgain(k)]_vars

\* An analyze of http://h/r, which redirects to http://h/a, ended and replaced
\* the entry of http://h/a, which had not expired
C30_Witness ==
    /\ ev.type = "return"
    /\ ev.url = UR
    /\ ev.resource[1].url = UA
    /\ ev.setlog[2].key = UA
    /\ ev.setlog[2].present
    /\ now > 0
    /\ now < CACHE_TTL

C30_WitnessEvicted ==
    /\ ev.type = "return"
    /\ \E i \in 1..Len(ev.setlog) : ~ev.setlog[i].present /\ ev.setlog[i].evicted # {}

C30_WitnessExpired == ev.type = "miss" /\ ev.age >= CACHE_TTL

\* The entries of cache c other than the one of key k, oldest first
Others(c, k) == SelectSeq(c, LAMBDA e : e.key # k)

\* The step is the cache lookup of an analyze call
IsLookup == ev'.type \in {"hit", "miss"}

\* The call whose lookup missed awaits the fetch of the URL
GoesOnToFetch ==
    \E c \in Calls :
        /\ calls[c].pc = "idle"
        /\ calls'[c].pc = "fetching"
        /\ calls'[c].url = ev'.url

\* C33: a cache lookup changes nothing but an expired entry. A lookup that finds
\* a live entry is a hit with its resource and leaves the cache (keys, order,
\* expiry times) as it is; a lookup that finds an expired entry removes exactly
\* that entry, leaves the others as they are and goes on as a miss; a lookup
\* that finds no entry leaves the cache as it is.
C33_LookupFrame ==
    [][IsLookup =>
          IF ev'.url \notin CacheKeys(cache)
          THEN ev'.type = "miss" /\ cache' = cache /\ GoesOnToFetch
          ELSE IF CacheEntry(cache, ev'.url).expires > now
          THEN /\ ev'.type = "hit"
               /\ ev'.resource = Some(CacheEntry(cache, ev'.url).resource)
               /\ cache' = cache
               /\ UNCHANGED calls
          ELSE /\ ev'.type = "miss"
               /\ ev'.url \notin CacheKeys(cache')
               /\ cache' = Others(cache, ev'.url)
               /\ Len(cache') = Len(cache) - 1
               /\ GoesOnToFetch]_vars

\* A hit on the older of two entries, one tick before it expires
C33_Witness ==
    /\ ev.type = "hit"
    /\ Len(cache) = 2
    /\ cache[1].key = ev.url
    /\ cache[1].expires = now + 1

\* A lookup removed an expired entry and left another one
C33_WitnessExpired ==
    /\ ev.type = "miss"
    /\ ev.age >= CACHE_TTL
    /\ Len(cache) = 1
    /\ ev.url \notin CacheKeys(cache)

\* C34: setting a key that is already in the cache never evicts another entry,
\* even when the cache is at capacity: the entry of the key goes, the key is
\* inserted again as the newest entry with expiry now + CACHE_TTL, the other
\* entries stay as they are and in their order, and the size is unchanged.
C34_SetOfCachedKey ==
    ev.type = "return" =>
        \A i \in 1..Len(ev.setlog) :
            ev.setlog[i].present =>
                /\ ev.setlog[i].evicted = {}
                /\ Len(ev.setlog[i].after) = Len(ev.setlog[i].before)
                /\ CacheKeys(ev.setlog[i].after) = CacheKeys(ev.setlog[i].before)
                /\ Others(ev.setlog[i].after, ev.setlog[i].key)
                      = Others(ev.setlog[i].before, ev.setlog[i].key)
                /\ ev.setlog[i].after[Len(ev.setlog[i].after)].key = ev.setlog[i].key
                /\ ev.setlog[i].after[Len(ev.setlog[i].after)].resource = ev.resource[1]
                /\ ev.setlog[i].after[Len(ev.setlog[i].after)].expires = now + CACHE_TTL

\* The first insertion of an analyze call found its key as the oldest entry of
\* a full cache, inserted at an earlier time
C34_Witness ==
    /\ ev.type = "return"
    /\ ev.setlog[1].present
    /\ Len(ev.setlog[1].before) = CACHE_SIZE
    /\ ev.setlog[1].before[1].key = ev.setlog[1].key
    /\ ev.setlog[1].before[1].at < now

\* The key was the newest entry of a full cache
C34_WitnessNewest ==
    /\ ev.type = "return"
    /\ ev.setlog[1].present
    /\ Len(ev.setlog[1].before) = CACHE_SIZE
    /\ ev.setlog[1].before[CACHE_SIZE].key = ev.setlog[1].key

\* Whether cache c holds an entry that has expired at time t
HoldsExpired(c, t) == \E i \in 1..Len(c) : c[i].expires <= t

\* C38: the insertion order of the cache is its expiry order in every reachable
\* state: from the oldest entry to the newest the expiry times do not decrease;
\* so an insertion never evicts a live entry from a cache that holds an expired
\* one.
C38_ExpiryOrder ==
    /\ \A i, j \in 1..Len(cache) : i < j => cache[i].expires <= cache[j].expires
    /\ ev.type = "return" =>
          \A i \in 1..Len(ev.setlog) :
              \A k \in ev.setlog[i].evicted :
                  CacheEntry(ev.setlog[i].before, k).expires > now
                      => ~HoldsExpired(ev.setlog[i].before, now)

\* An insertion evicted an expired entry from a cache that held a live one, and
\* the cache holds two entries of different expiry times
C38_Witness ==
    /\ ev.type = "return"
    /\ \E i \in 1..Len(ev.setlog) :
          \E k \in ev.setlog[i].evicted :
              /\ CacheEntry(ev.setlog[i].before, k).expires <= now
              /\ \E j \in 1..Len(ev.setlog[i].before) : ev.setlog[i].before[j].expires > now
    /\ Len(cache) = 2
    /\ cache[1].expires < cache[2].expires

\* An insertion evicted a live entry: the cache held live entries only
C38_WitnessLive ==
    /\ ev.type = "return"
    /\ \E i \in 1..Len(ev.setlog) :
          \E k \in ev.setlog[i].evicted : CacheEntry(ev.setlog[i].before, k).expires > now

\* The step leaves every entry of the cache where and as it is, but for the
\* entry of key k, which may go
OnlyDrops(k) == cache' = cache \/ cache' = Others(cache, k)

\* The step is the end of an analyze call that inserted its resource under the
\* URL asked for and under the URL of the resource, as the two newest entries
InsertsBoth ==
    /\ ev'.type = "return"
    /\ Len(ev'.setlog) = 2
    /\ ev'.setlog[1].key = ev'.url
    /\ ev'.setlog[2].key = ev'.resource[1].url
    /\ ev'.setlog[1].before = cache
    /\ ev'.setlog[2].before = ev'.setlog[1].after
    /\ ev'.setlog[2].after = cache'
    /\ \A k \in {ev'.url, ev'.resource[1].url} :
          /\ k \in CacheKeys(cache')
          /\ CacheEntry(cache', k).resource = ev'.resource[1]
          /\ CacheEntry(cache', k).at = now

\* C32: no cache mutation spans a suspension point. In every interleaving of
\* concurrent analyze calls, a step that changes the cache is either the lookup
\* of one call, which drops at most the expired entry of its URL and leaves the
\* call awaiting the fetch in the same step, or the end of one call, which
\* inserts its resource under both keys in the same step; so the calls in
\* flight, which run only between such steps, never find the cache with one of
\* the two keys of a finished analysis inserted and the other not yet.
C32_NoMutationAcrossSuspension ==
    [][/\ cache' # cache =>
             \/ IsLookup /\ OnlyDrops(ev'.url) /\ GoesOnToFetch
             \/ InsertsBoth
       /\ \A c \in Calls : calls'[c].pc \in {"idle", "fetching", "handling"}]_vars

\* An analyze of http://h/r ended, its resource cached under http://h/r and
\* http://h/a, while the other call awaits its fetch of http://h/a
C32_Witness ==
    /\ ev.type = "return"
    /\ ev.url = UR
    /\ ev.resource[1].url = UA
    /\ {UR, UA} \subseteq CacheKeys(cache)
    /\ \E c \in Calls : calls[c].pc = "fetching" /\ calls[c].url = UA

\* A lookup dropped an expired entry while the other call awaits a handler
C32_WitnessLookup ==
    /\ ev.type = "miss"
    /\ ev.age >= CACHE_TTL
    /\ \E c \in Calls : calls[c].pc = "handling"

\* The call of the last step failed: its fetch or one of its handlers raised
Failed == ev.type = "raise"

\* The handlers were invoked in list order up to the one that raised, the ones
\* before it having given neither an error nor a resource
StoppedAtFailure ==
    IF ev.fetched = NoFetch THEN ev.invoked = <<>>
    ELSE /\ Len(ev.invoked) \in 1..Len(handlers)
         /\ \A j \in 1..Len(ev.invoked) :
               /\ ev.invoked[j].i = j
               /\ j < Len(ev.invoked) => ev.invoked[j].err = "" /\ ev.invoked[j].result = None
         /\ ev.invoked[Len(ev.invoked)].err = ev.err

\* C37: a failed analyze inserts nothing into the cache. If the fetch or a
\* handler raises, the handlers after the failing one are not invoked, the call
\* is over after the network operations it made once each (no internal retry),
\* the step that raises leaves the cache as it is and the lookup of the call
\* dropped at most the expired entry of the URL, so the cache holds no entry
\* for the URL and the next analyze of it misses and awaits a fresh fetch.
C37_FailureCachesNothing ==
    /\ [](Failed =>
             /\ ev.err # ""
             /\ StoppedAtFailure
             /\ calls[1] = Idle
             /\ ev.net = NetworkOperations
             /\ ev.url \notin CacheKeys(cache)
             /\ ~_get_cache(cache, ev.url, now).hit)
    /\ [][/\ ev'.type \in {"raise", "fetched"} => cache' = cache /\ order' = order
          /\ IsLookup => OnlyDrops(ev'.url)
          /\ (Failed /\ IsLookup /\ ev'.url = ev.url) =>
                /\ ev'.type = "miss"
                /\ calls'[1].pc = "fetching"
                /\ calls'[1].url = ev.url]_vars

\* The video handler raised, the handlers after it were not invoked, and the
\* cache still holds the entries of an earlier analysis, one of them expired
C37_Witness ==
    /\ Failed
    /\ ev.fetched # NoFetch
    /\ Len(ev.invoked) = 1
    /\ Len(handlers) = 3
    /\ Len(cache) = 2
    /\ cache[1].expires <= now

\* The fetch raised
C37_WitnessFetch == Failed /\ ev.fetched = NoFetch /\ ev.err = "CommunicationError" /\ Len(cache) = 1

\* The last handler raised after the fetch of the image it asked for
C37_WitnessNested ==
    /\ Failed
    /\ Len(ev.invoked) = Len(handlers)
    /\ ev.err = "NoResourceError"
    /\ ev.net = 2

\* Call c and the other call are both in flight for the same URL
InFlightTogether(c) ==
    \E d \in Calls \ {c} :
        /\ calls[c].pc # "idle"
        /\ calls[d].pc # "idle"
        /\ calls[c].url = calls[d].url

\* The step is the return of the fetch of call c: the call goes on with what
\* the server answered to it, and the other calls stay where they are
OwnFetch(c) ==
    /\ ev'.net >= 1
    /\ ev'.url = calls[c].url
    /\ \A d \in Calls \ {c} : calls'[d] = calls[d]
    /\ calls'[c].pc = "handling" =>
          /\ calls'[c].fetched.data = ev'.body
          /\ calls'[c].fetched.content_type = MediaType(ev'.header[1])

\* The step is the end of call c: it returns the resource of what it fetched
\* itself, and the cache holds that resource for the URL
OwnResult(c) ==
    /\ ev'.url = calls[c].url
    /\ calls[c].pc = "handling" => ev'.fetched = calls[c].fetched
    /\ ev'.resource[1].url = ev'.fetched.eff
    /\ ev'.resource[1].content_type = ev'.fetched.content_type
    /\ ev'.net >= 1
    /\ CacheEntry(cache', ev'.url).resource = ev'.resource[1]
    /\ CacheEntry(cache', ev'.url).at = now

\* C39: concurrent analyses of the same uncached URL are not coalesced. A call
\* for a URL that is not cached misses and awaits its own fetch, whether or not
\* another call for the URL is in flight; each fetch returns to its call alone;
\* each call returns the resource of what it fetched itself; and when a call
\* ends, the cache entry of the URL holds its resource, so that after both the
\* entry is that of the call that ended last, whichever fetched first.
C39_NotCoalesced ==
    [][/\ (IsLookup /\ ev'.url \notin CacheKeys(cache)) =>
             ev'.type = "miss" /\ GoesOnToFetch
       /\ \A c \in Calls :
             /\ (calls[c].pc = "fetching" /\ calls'[c].pc # "fetching") => OwnFetch(c)
             /\ (calls[c].pc # "idle" /\ calls'[c].pc = "idle" /\ ev'.type = "return") =>
                   OwnResult(c)]_vars

\* Both calls await the thumbnail of what they fetched from http://h/img, one
\* a PNG, the other a JPEG
C39_WitnessBoth ==
    /\ InFlightTogether(1)
    /\ calls[1].pc = "handling"
    /\ calls[2].pc = "handling"
    /\ calls[1].url = UI
    /\ calls[2].url = UI
    /\ calls[1].fetched.content_type = "image/png"
    /\ calls[2].fetched.content_type = "image/jpeg"
    /\ cache = <<>>

\* A call for http://h/img ended with the image it fetched, replacing the entry
\* that held the other image, which the other call had inserted meanwhile
C39_Witness ==
    /\ ev.type = "return"
    /\ ev.url = UI
    /\ ev.setlog[1].present
    /\ ev.setlog[1].before[1].key = UI
    /\ ev.setlog[1].before[1].resource # ev.resource[1]
    /\ Len(cache) = 1
    /\ cache[1].resource = ev.resource[1]
    /\ \A c \in Calls : calls[c].pc = "idle"

\* The byte string whose digest names the file of a file URL
Content(url) == CHOOSE d \in Data : sha256(d) = url[3]

\* No write call for the file of name is in flight
Settled(name) == \A w \in Calls : dumps[w].pc = "idle" \/ dumps[w].name # name

\* Every write of a byte string and a media type returns the one URL made of
\* the digest and the extension, and once no write of it is in flight the store
\* holds the byte string in the file of that name and in no other file of that
\* extension
C31_WritersAgree ==
    (ev.type = "write" /\ ev.file.err = "") =>
        /\ ev.file.url
              = <<"file:", "/", sha256(ev.file.data), guess_extension(ev.file.content_type)>>
        /\ Settled(SubSeq(ev.file.url, 3, 4)) =>
              /\ SubSeq(ev.file.url, 3, 4) \in DOMAIN store
              /\ \A n \in DOMAIN store :
                    n[2] = ev.file.url[4] =>
                        (store[n] = ev.file.data <=> n = SubSeq(ev.file.url, 3, 4))

\* The file of name held its data when the write calls for it that are in
\* flight were called: a write had returned its URL
Resulted(name) == \A w \in Calls : (dumps[w].pc # "idle" /\ dumps[w].name = name) => dumps[w].had

\* C31 as stated: concurrent writers of identical content race harmlessly.
\* Under every interleaving of write calls of the same data and media type and
\* of reads of the URL that a write of them has returned, every write returns
\* the same URL, the store ends up with one file that holds the data, and every
\* read that succeeds returns the data that were written, never less.
C31_IdenticalWritesRace ==
    /\ C31_WritersAgree
    /\ (ev.type = "read" /\ ev.file.err = "" /\ Resulted(SubSeq(ev.file.url, 3, 4))) =>
          ev.file.data = Content(ev.file.url)

\* The step is one of a garbage collection: an unlink, its return or its error
IsCollectStep == ev'.type \in {"unlinked", "collected", "collect_raise"}

\* The files that the step removed from the store
Lost == DOMAIN store \ DOMAIN store'

\* C35: garbage_collect never deletes a referenced file, under any interleaving
\* with write calls. While a collection runs, a file whose name its references
\* name, whether it was there when the collection listed the directory or was
\* written since, stays in the store, and no step of the collection changes
\* the content of a file; the files that go are files of its garbage, which
\* its references do not name; so when the collection returns, every referenced
\* file that it listed is there.
C35_KeepsReferenced ==
    /\ [][\A c \in Calls :
             gc[c].pc = "unlinking" =>
                 /\ \A n \in ReferencedNames(gc[c].references) \cap DOMAIN store :
                       n \in DOMAIN store'
                 /\ \A n \in Lost :
                       n \in gc[c].garbage /\ n \notin ReferencedNames(gc[c].references)
                 /\ IsCollectStep => \A n \in DOMAIN store' : store'[n] = store[n]]_vars
    /\ [](ev.type = "collected" =>
             \A n \in ReferencedNames(ev.file.references) \cap DOMAIN ev.file.before :
                 n \in DOMAIN store)

\* A collection returned that had listed one file, unreferenced, and removed
\* it, while the referenced file, written since, is there with its data
C35_Witness ==
    /\ ev.type = "collected"
    /\ ev.file.n = 1
    /\ ev.file.references = {<<"file:", "/", "#b1", ".bin">>}
    /\ DOMAIN ev.file.before = {<<"#p2", ".png">>}
    /\ DOMAIN store = {<<"#b1", ".bin">>}
    /\ store[<<"#b1", ".bin">>] = "blob"

\* A write returned the URL of a file that the collection has removed since
\* the write opened it: the file was not referenced
C35_WitnessLost ==
    /\ ev.type = "write"
    /\ ev.file.err = ""
    /\ SubSeq(ev.file.url, 3, 4) \notin DOMAIN store
    /\ gc[1].pc = "unlinking"
    /\ ev.file.url \notin gc[1].references

\* C36 as stated: two garbage collections that run at the same time on a store
\* both come to an end without raising, each leaves none of the files that its
\* references do not name, so that the store ends up holding the files that
\* both reference, and each returns the number of files that it removed itself,
\* so that the two counts add up to the number of files removed.
C36_ConcurrentCollections ==
    ev.type \in {"collected", "collect_raise"} =>
        /\ ev.file.err = ""
        /\ DOMAIN store \cap Garbage(DOMAIN ev.file.before, ev.file.references) = {}
        /\ ev.file.n = Cardinality(ev.file.gone)

\* The part of C36 that holds: a collection that returns has removed every
\* file of its garbage itself and returns their number, and no collection
\* removes a file that its references name
C36_ReturnedCountIsRemoved ==
    /\ ev.type = "collected" =>
          /\ ev.file.gone = Garbage(DOMAIN ev.file.before, ev.file.references)
          /\ ev.file.n = Cardinality(ev.file.gone)
          /\ DOMAIN store \cap ev.file.gone = {}
    /\ ev.type \in {"collected", "collect_raise"} =>
          ev.file.gone \cap ReferencedNames(ev.file.references) = {}

\* A collection raised FileNotFoundError for a file that the other one had
\* removed, and left a file of its garbage in the store, with no collection
\* in flight
C36_LeftBehind ==
    /\ ev.type = "collect_raise"
    /\ ev.file.err = "FileNotFoundError"
    /\ DOMAIN store \cap Garbage(DOMAIN ev.file.before, ev.file.references) # {}
    /\ \A c \in Calls : gc[c].pc = "idle"

====
